---- MODULE Spec2Model ----
(***************************************************************************)
(* Model of ResumeAI: the content script ("Resume builder Ai/content.js")  *)
(* with the three-tier extractor extractJobDescription and its whitespace  *)
(* normaliser collapseWhitespace, the serverless handler                   *)
(* ("Resume/api/generate.js") and the popup script (popup.js, v2).         *)
(*                                                                         *)
(* Strings are run-length encoded: a string is a sequence of runs          *)
(* [c |-> character, n |-> repetitions] in which adjacent runs carry       *)
(* different characters.  Every regular expression of collapseWhitespace   *)
(* matches runs of one character (or the pair CR LF), so each replace()    *)
(* is computed on the runs exactly as the engine computes it on the        *)
(* characters, and MIN_LENGTH = 200 and the 8000 cap keep their values.    *)
(***************************************************************************)
EXTENDS Integers, Sequences, FiniteSets, TLC

VARIABLES doc, pc, i, j, bestElement, bestLength, result, returnedBy,
          str, once, twice, npc,
          req, upstream, apiKey, hpc, tailoredText, calls, res,
          storage, pickedFileText, scrapedJobText, lastResult, dom, tasks,
          clicks, last, sent

vars == <<doc, pc, i, j, bestElement, bestLength, result, returnedBy,
          str, once, twice, npc,
          req, upstream, apiKey, hpc, tailoredText, calls, res,
          storage, pickedFileText, scrapedJobText, lastResult, dom, tasks,
          clicks, last, sent>>

extractVars == <<doc, pc, i, j, bestElement, bestLength, result, returnedBy>>
normVars == <<str, once, twice, npc>>
handlerVars == <<req, upstream, apiKey, hpc, tailoredText, calls, res>>
popupVars == <<storage, pickedFileText, scrapedJobText, lastResult, dom, tasks,
               clicks, last, sent>>

(***************************************************************************)
(* Characters and strings                                                  *)
(***************************************************************************)
SP == "sp"
TAB == "tab"
LF == "lf"
CR == "cr"

Letters == {"a", "b", "c"}

\* the characters String.prototype.trim removes, among those modelled
TrimChars == {SP, TAB, LF, CR}

Chars == Letters \cup TrimChars

Run(c, n) == [c |-> c, n |-> n]

EmptyString == <<>>

\* merge adjacent runs of one character and drop empty runs
RECURSIVE Canon(_)
Canon(s) ==
  IF s = <<>> THEN <<>>
  ELSE IF Head(s).n = 0 THEN Canon(Tail(s))
  ELSE LET rest == Canon(Tail(s)) IN
       IF rest # <<>> /\ Head(rest).c = Head(s).c
         THEN <<Run(Head(s).c, Head(s).n + Head(rest).n)>> \o Tail(rest)
         ELSE <<Head(s)>> \o rest

\* String.prototype.length
RECURSIVE Length(_)
Length(s) == IF s = <<>> THEN 0 ELSE Head(s).n + Length(Tail(s))

\* String.prototype.slice(0, k)
RECURSIVE Slice(_, _)
Slice(s, k) ==
  IF s = <<>> \/ k <= 0 THEN <<>>
  ELSE IF Head(s).n >= k THEN <<Run(Head(s).c, k)>>
  ELSE <<Head(s)>> \o Slice(Tail(s), k - Head(s).n)

\* a || b on strings: the empty string is falsy
OrElse(a, b) == IF a # EmptyString THEN a ELSE b

(***************************************************************************)
(* collapseWhitespace, one operator per replace() / trim() of the chain    *)
(***************************************************************************)

\* .replace(/\r\n/g, "\n"): the last CR of a CR run that is directly
\* followed by LF is consumed with that LF and replaced by LF
ReplaceCRLF(s) ==
  Canon([k \in 1..Len(s) |->
           IF s[k].c = CR /\ k < Len(s) /\ s[k + 1].c = LF
             THEN Run(CR, s[k].n - 1)
             ELSE s[k]])

\* .replace(/\t/g, " ")
TabsToSpaces(s) ==
  Canon([k \in 1..Len(s) |-> IF s[k].c = TAB THEN Run(SP, s[k].n) ELSE s[k]])

\* the space pattern written as / {3,}/
CollapseSpaces_ThreeOrMore(s) ==
  [k \in 1..Len(s) |-> IF s[k].c = SP /\ s[k].n >= 3 THEN Run(SP, 1) ELSE s[k]]

\* .replace(/ {2,}/g, " ")
CollapseSpaces(s) ==
  [k \in 1..Len(s) |-> IF s[k].c = SP /\ s[k].n >= 2 THEN Run(SP, 1) ELSE s[k]]

\* the newline pattern replaced by a single newline
CollapseNewlines_ToOne(s) ==
  [k \in 1..Len(s) |-> IF s[k].c = LF /\ s[k].n >= 3 THEN Run(LF, 1) ELSE s[k]]

\* .replace(/\n{3,}/g, "\n\n")
CollapseNewlines(s) ==
  [k \in 1..Len(s) |-> IF s[k].c = LF /\ s[k].n >= 3 THEN Run(LF, 2) ELSE s[k]]

RECURSIVE TrimStart(_)
TrimStart(s) ==
  IF s # <<>> /\ Head(s).c \in TrimChars THEN TrimStart(Tail(s)) ELSE s

RECURSIVE TrimEnd(_)
TrimEnd(s) ==
  IF s # <<>> /\ s[Len(s)].c \in TrimChars
    THEN TrimEnd(SubSeq(s, 1, Len(s) - 1))
    ELSE s

\* .trim()
Trim(s) == TrimEnd(TrimStart(s))

collapseWhitespace(s) ==
  Trim(CollapseNewlines(CollapseSpaces(TabsToSpaces(ReplaceCRLF(s)))))

(***************************************************************************)
(* Properties of a string                                                  *)
(***************************************************************************)
HasChar(s, c) == \E k \in 1..Len(s) : s[k].c = c

HasRun(s, c, n) == \E k \in 1..Len(s) : s[k].c = c /\ s[k].n >= n

HasCRLF(s) == \E k \in 1..(Len(s) - 1) : s[k].c = CR /\ s[k + 1].c = LF

EdgeWhitespace(s) ==
  s # <<>> /\ (s[1].c \in TrimChars \/ s[Len(s)].c \in TrimChars)

(***************************************************************************)
(* Inputs of the normaliser                                                *)
(***************************************************************************)
MaxRuns == 4
MaxCount == 3

\* one letter stands for every character that is not whitespace, and one
\* occurrence of it for every run of such characters: no step of
\* collapseWhitespace looks at them
RunSet == {Run("a", 1)} \cup {Run(c, n) : c \in TrimChars, n \in 1..MaxCount}

IsCanon(s) == \A k \in 1..(Len(s) - 1) : s[k].c # s[k + 1].c

\* the strings of exactly k runs
StringsOfRuns(k) == {s \in [1..k -> RunSet] : IsCanon(s)}

(***************************************************************************)
(* The document: elements in document order, each with the attributes the  *)
(* script reads, and document.body                                         *)
(***************************************************************************)
\* null, where the script holds an element or nothing: elements are denoted
\* by their position in the document, from 1
NULL == 0

\* document.body: absent (null) in a document without body element (a
\* stand-alone SVG or XML document), else the body with its rendered text
NoBody == [isNull |-> TRUE, innerText |-> EmptyString]

Body(t) == [isNull |-> FALSE, innerText |-> t]

Element(tag, cls, id, display, visibility, children, inner, content) ==
  [tagName |-> tag, className |-> cls, id |-> id, automationId |-> "",
   display |-> display, visibility |-> visibility, children |-> children,
   innerText |-> inner, textContent |-> content]

MIN_LENGTH == 200

LAST_RESORT_CAP == 8000

KNOWN_SELECTORS ==
  << [kind |-> "class", arg |-> "jobs-description__content"],
     [kind |-> "class", arg |-> "jobs-box__html-content"],
     [kind |-> "id", arg |-> "jobDescriptionText"],
     [kind |-> "class", arg |-> "jobsearch-jobDescriptionText"],
     [kind |-> "id", arg |-> "content"],
     [kind |-> "class", arg |-> "job__description"],
     [kind |-> "class", arg |-> "posting-description"],
     [kind |-> "class", arg |-> "section-wrapper"],
     [kind |-> "automationId", arg |-> "jobPostingDescription"],
     [kind |-> "class", arg |-> "job-description"],
     [kind |-> "class", arg |-> "job-sections"],
     [kind |-> "class", arg |-> "ashby-job-posting-brief-description"],
     [kind |-> "classContains", arg |-> "job-description"],
     [kind |-> "classContains", arg |-> "jobDescription"],
     [kind |-> "classContains", arg |-> "job_description"],
     [kind |-> "idContains", arg |-> "job-description"],
     [kind |-> "idContains", arg |-> "jobDescription"],
     [kind |-> "tag", arg |-> "ARTICLE"],
     [kind |-> "tag", arg |-> "MAIN"] >>

\* attribute values of the modelled documents that contain the argument of a
\* substring selector [class*='...'] or [id*='...']
SubstringPairs ==
  { <<"job-description", "job-description">>,
    <<"jobsearch-jobDescriptionText", "jobDescription">>,
    <<"jobDescriptionText", "jobDescription">> }

\* Element.matches(selector); every modelled class attribute is one token
Matches(el, sel) ==
  CASE sel.kind = "class" -> el.className = sel.arg
    [] sel.kind = "id" -> el.id = sel.arg
    [] sel.kind = "automationId" -> el.automationId = sel.arg
    [] sel.kind = "classContains" -> <<el.className, sel.arg>> \in SubstringPairs
    [] sel.kind = "idContains" -> <<el.id, sel.arg>> \in SubstringPairs
    [] sel.kind = "tag" -> el.tagName = sel.arg

\* document.querySelector(selector): the first match in document order,
\* as the index of the element in the document, or NULL
querySelector(d, sel) ==
  LET hits == {k \in 1..Len(d.els) : Matches(d.els[k], sel)} IN
  IF hits = {} THEN NULL ELSE CHOOSE k \in hits : \A h \in hits : k <= h

BLOCK_TAGS == {"DIV", "SECTION", "ARTICLE", "MAIN", "P", "UL", "OL", "TABLE"}

SKIP_TAGS == {"SCRIPT", "STYLE", "NOSCRIPT", "IFRAME",
              "HEADER", "FOOTER", "NAV", "ASIDE", "FORM"}

CANDIDATE_TAGS == {"DIV", "SECTION", "ARTICLE", "MAIN"}

\* document.querySelectorAll("div, section, article, main"): the indices of
\* the matching elements, in document order
RECURSIVE CandidatesFrom(_, _)
CandidatesFrom(d, k) ==
  IF k > Len(d.els) THEN <<>>
  ELSE IF d.els[k].tagName \in CANDIDATE_TAGS
    THEN <<k>> \o CandidatesFrom(d, k + 1)
    ELSE CandidatesFrom(d, k + 1)

candidates(d) == CandidatesFrom(d, 1)

\* a child element: its tag, the tags of its own children and its text
Child(tag, children) ==
  [tagName |-> tag, children |-> children, text |-> EmptyString]

TextChild(tag, text) == [tagName |-> tag, children |-> <<>>, text |-> text]

\* elements the browser does not render: their text is in textContent but
\* not in innerText
UnrenderedTags == {"SCRIPT", "STYLE", "NOSCRIPT", "IFRAME"}

\* Node.textContent of an element with the given own text and children
RECURSIVE textContentOf(_, _)
textContentOf(own, kids) ==
  IF kids = <<>> THEN own
  ELSE textContentOf(Canon(own \o Head(kids).text), Tail(kids))

\* HTMLElement.innerText of the same element when it is rendered: each
\* rendered child is a block of its own
RECURSIVE innerTextOf(_, _)
innerTextOf(own, kids) ==
  IF kids = <<>> THEN own
  ELSE IF Head(kids).tagName \in UnrenderedTags \/ Head(kids).text = EmptyString
    THEN innerTextOf(own, Tail(kids))
    ELSE innerTextOf(Canon(own \o <<Run(LF, 1)>> \o Head(kids).text),
                     Tail(kids))

\* a rendered DIV with the given own text and children
Container(own, kids) ==
  [tagName |-> "DIV", className |-> "", id |-> "", automationId |-> "",
   display |-> "block", visibility |-> "visible", children |-> kids,
   innerText |-> innerTextOf(own, kids),
   textContent |-> textContentOf(own, kids)]

\* the count taken over children and grandchildren alike
directBlockChildren_AllDescendants(el) ==
  Cardinality({k \in 1..Len(el.children) :
                 el.children[k].tagName \in BLOCK_TAGS})
  + Cardinality(UNION {{<<k, m>> : m \in
                          {n \in 1..Len(el.children[k].children) :
                             el.children[k].children[n] \in BLOCK_TAGS}} :
                       k \in 1..Len(el.children)})

\* [...el.children].filter((c) => BLOCK_TAGS.has(c.tagName)).length
directBlockChildren(el) ==
  Cardinality({k \in 1..Len(el.children) :
                 el.children[k].tagName \in BLOCK_TAGS})

WRAPPER_LIMIT == 12

\* the two accessors tried in the other order
ElementText_ContentFirst(el) ==
  collapseWhitespace(OrElse(el.textContent, OrElse(el.innerText, EmptyString)))

\* collapseWhitespace(el.innerText || el.textContent || "")
ElementText(el) ==
  collapseWhitespace(OrElse(el.innerText, OrElse(el.textContent, EmptyString)))

(***************************************************************************)
(* The documents explored                                                  *)
(***************************************************************************)
MaxElems == 2

\* raw length 300, normalised length 101
ShortText == <<Run("a", 50), Run(SP, 200), Run("a", 50)>>

\* normalised length exactly MIN_LENGTH
MinText == <<Run(SP, 1), Run("a", 200), Run(TAB, 1)>>

\* normalised length 300
LongText == <<Run("b", 150), Run(LF, 4), Run("b", 148)>>

XLongText == <<Run("c", 1000)>>

\* longer than the cap, with a space as its 8000th character
CapText == <<Run("a", 7999), Run(SP, 1), Run("b", 5)>>

PChildren(n) == [k \in 1..n |-> Child("P", <<>>)]

\* two sections of seven paragraphs each
NestedChildren == [k \in 1..2 |-> Child("SECTION", [m \in 1..7 |-> "P"])]

Markups ==
  { <<"DIV", "", "jobDescriptionText">>,
    <<"DIV", "section-wrapper", "">>,
    <<"ARTICLE", "", "">>,
    <<"DIV", "", "">>,
    <<"TABLE", "", "">> }

PlainElements ==
  { Element(m[1], m[2], m[3], "block", "visible", <<>>, t, t) :
      m \in Markups, t \in {ShortText, LongText} }

SpecialElements ==
  { Element("DIV", "", "jobDescriptionText", "block", "visible", <<>>,
            MinText, MinText),
    Element("ARTICLE", "", "", "block", "visible", <<>>,
            XLongText, XLongText),
    \* display: none; innerText of an element that is not rendered is its
    \* textContent
    Element("DIV", "", "", "none", "visible", <<>>, XLongText, XLongText),
    Element("DIV", "section-wrapper", "", "none", "visible", <<>>,
            LongText, LongText),
    \* visibility: hidden; nothing of the element is rendered text
    Element("DIV", "", "", "block", "hidden", <<>>, EmptyString, XLongText),
    \* layout wrappers with 13 direct block children, and one with 12
    Element("DIV", "section-wrapper", "", "block", "visible", PChildren(13),
            LongText, LongText),
    Element("DIV", "", "", "block", "visible", PChildren(13),
            XLongText, XLongText),
    Element("DIV", "", "", "block", "visible", PChildren(12),
            XLongText, XLongText),
    \* 13 children of which 12 are block-level
    Element("DIV", "", "", "block", "visible",
            PChildren(12) \o <<Child("SPAN", <<>>)>>, LongText, LongText),
    \* a short text of its own and a long navigation bar
    Container(ShortText, <<TextChild("NAV", <<Run("b", 150)>>)>>),
    \* a short text of its own and a long inline script
    Container(ShortText, <<TextChild("SCRIPT", <<Run("c", 1000)>>)>>),
    \* 2 block children, 14 block grandchildren
    Element("DIV", "", "", "block", "visible", NestedChildren,
            XLongText, XLongText),
    \* visible containers whose text sits in hidden descendants
    Element("DIV", "", "jobDescriptionText", "block", "visible", <<>>,
            EmptyString, XLongText),
    Element("DIV", "section-wrapper", "", "block", "visible", <<>>,
            ShortText, XLongText) }

Elements == PlainElements \cup SpecialElements

\* the documents of exactly k elements, in document order
ElementLists(k) == [1..k -> Elements]

Bodies == {NoBody} \cup {Body(t) : t \in {EmptyString, ShortText, CapText}}

\* the text an element adds to the innerText of a rendered ancestor
RenderedText(el) ==
  IF el.display = "none" \/ el.visibility = "hidden"
    THEN EmptyString
    ELSE el.innerText

\* the element as it is inside an ancestor with display: none: it is not
\* rendered, so its innerText is its textContent
Unrendered(el) == [el EXCEPT !.innerText = el.textContent]

\* el as a child of another element
AsChild(el) ==
  [tagName |-> el.tagName,
   children |-> [k \in 1..Len(el.children) |-> el.children[k].tagName],
   text |-> el.textContent]

\* a DIV with the given display and own text that has inner as its only
\* child element
Outer(display, own, inner) ==
  [tagName |-> "DIV", className |-> "", id |-> "", automationId |-> "",
   display |-> display, visibility |-> "visible",
   children |-> <<AsChild(inner)>>,
   innerText |->
     IF display = "none" THEN Canon(own \o inner.textContent)
     ELSE IF RenderedText(inner) = EmptyString THEN own
     ELSE IF own = EmptyString THEN RenderedText(inner)
     ELSE Canon(own \o <<Run(LF, 1)>> \o RenderedText(inner)),
   textContent |-> Canon(own \o inner.textContent)]

\* the elements put inside another candidate
InnerElements ==
  { Element("DIV", "", "", "block", "visible", <<>>, ShortText, ShortText),
    Element("SECTION", "", "", "block", "visible", <<>>, LongText, LongText),
    Element("DIV", "", "", "none", "visible", <<>>, XLongText, XLongText),
    Element("DIV", "", "", "block", "hidden", <<>>, EmptyString, XLongText),
    Element("DIV", "", "", "block", "visible", PChildren(13),
            XLongText, XLongText),
    \* nothing but an inline script
    Container(EmptyString, <<TextChild("SCRIPT", <<Run("c", 1000)>>)>>) }

\* a candidate and, inside it, a second one; parent[k] is the position of
\* the parent of the k-th element, or NULL when its parent is the body
NestedDocuments ==
  { [els |-> <<Outer(d, own, IF d = "none" THEN Unrendered(e) ELSE e),
               IF d = "none" THEN Unrendered(e) ELSE e>>,
     parent |-> <<NULL, 1>>,
     body |-> b] :
      d \in {"block", "none"}, own \in {EmptyString, ShortText, LongText},
      e \in InnerElements, b \in {Body(EmptyString), Body(CapText)} }

\* one element whose text is longer than the cap of the last resort: found
\* by a tier-1 selector, or by the heuristic scan only
LongDocuments ==
  { [els |-> <<Element("DIV", "", id, "block", "visible", <<>>,
                       CapText, CapText)>>,
     parent |-> <<NULL>>,
     body |-> Body(CapText)] : id \in {"jobDescriptionText", ""} }

EmptyDocument == [els |-> <<>>, parent |-> <<>>, body |-> NoBody]

(***************************************************************************)
(* Values of the serverless handler (api/generate.js) before any request   *)
(***************************************************************************)
\* the two executions of the handler that are compared with each other
Runs == {1, 2}

\* a property that is absent from the request body
Undefined == [type |-> "undefined", text |-> EmptyString]

NoRequest ==
  [method |-> "NONE",
   body |-> [isNull |-> TRUE, resume |-> Undefined,
             jobDescription |-> Undefined]]

\* a number as tenths; type says what typeof gives for the value
NoScore == [type |-> "undefined", tenths |-> 0]

NoKeywords == [isArray |-> FALSE, items |-> <<>>]

\* the properties read from a value that has none of them
NoProps ==
  [score |-> NoScore, matchedKeywords |-> NoKeywords,
   missingKeywords |-> NoKeywords, advice |-> Undefined]

\* a text that is no JSON and has no braces
NoJson ==
  [whole |-> "invalid", truthy |-> FALSE, braces |-> "none",
   props |-> NoProps]

NoReply ==
  [kind |-> "none", ok |-> FALSE, status |-> 0, message |-> EmptyString,
   isJson |-> FALSE, textType |-> "undefined", text |-> EmptyString,
   json |-> NoJson]

\* nothing has been sent on res yet
NoResponse == [status |-> 0, kind |-> "none", body |-> <<>>]

HandlerIdle ==
  /\ req = NoRequest
  /\ upstream = [tailor |-> NoReply, ats |-> NoReply]
  /\ apiKey = [r \in Runs |-> EmptyString]
  /\ hpc = [r \in Runs |-> "idle"]
  /\ tailoredText = [r \in Runs |-> EmptyString]
  /\ calls = [r \in Runs |-> <<>>]
  /\ res = [r \in Runs |-> NoResponse]

(***************************************************************************)
(* Values of the popup (popup.js, v2) before it is opened                  *)
(***************************************************************************)
\* the value null
NullValue == [type |-> "null", text |-> EmptyString]

\* the hidden and disabled flags the popup script reads and writes
Dom(mainHidden, onboardingHidden, generateDisabled) ==
  [screenMain_hidden |-> mainHidden,
   screenOnboarding_hidden |-> onboardingHidden,
   btnGenerate_disabled |-> generateDisabled,
   btnCopy_disabled |-> TRUE,
   btnDownload_disabled |-> TRUE,
   errorBanner_hidden |-> TRUE]

PopupIdle ==
  /\ storage = Undefined
  /\ pickedFileText = NullValue
  /\ scrapedJobText = NullValue
  /\ lastResult = NullValue
  /\ dom = Dom(TRUE, TRUE, TRUE)
  /\ tasks = <<>>
  /\ clicks = 0
  /\ last = {}
  /\ sent = <<>>

(***************************************************************************)
(* extractJobDescription                                                   *)
(***************************************************************************)
Init ==
  /\ \/ \E k \in 0..MaxElems : \E l \in ElementLists(k) : \E b \in Bodies :
          doc = [els |-> l, parent |-> [n \in 1..k |-> NULL], body |-> b]
     \/ doc \in NestedDocuments
     \/ doc \in LongDocuments
  /\ pc = "TRY_SELECTORS"
  /\ i = 1
  /\ j = 1
  /\ bestElement = NULL
  /\ bestLength = 0
  /\ result = EmptyString
  /\ returnedBy = "none"
  /\ str = EmptyString
  /\ once = EmptyString
  /\ twice = EmptyString
  /\ npc = "idle"
  /\ HandlerIdle
  /\ PopupIdle

\* the element tier 1 tests for the k-th selector, NULL when nothing matches
SelectorElement(d, k) == querySelector(d, KNOWN_SELECTORS[k])

\* the threshold test written with >
LongEnough_Strict(text) == Length(text) > MIN_LENGTH

\* text.length >= MIN_LENGTH
LongEnough(text) == Length(text) >= MIN_LENGTH

\* one iteration of the loop over KNOWN_SELECTORS
SelectorStep ==
  /\ pc = "TRY_SELECTORS"
  /\ i <= Len(KNOWN_SELECTORS)
  /\ LET el == SelectorElement(doc, i) IN
     IF el # NULL /\ LongEnough(ElementText(doc.els[el]))
       THEN /\ result' = ElementText(doc.els[el])
            /\ returnedBy' = "selectors"
            /\ pc' = "DONE"
            /\ i' = i
       ELSE /\ i' = i + 1
            /\ UNCHANGED <<result, returnedBy, pc>>
  /\ UNCHANGED <<doc, j, bestElement, bestLength>>
  /\ UNCHANGED <<normVars, handlerVars, popupVars>>

\* the selector loop ends without a return; bestElement, bestLength and
\* candidates are initialised
SelectorsExhausted ==
  /\ pc = "TRY_SELECTORS"
  /\ i > Len(KNOWN_SELECTORS)
  /\ pc' = "TRY_HEURISTIC"
  /\ bestElement' = NULL
  /\ bestLength' = 0
  /\ j' = 1
  /\ UNCHANGED <<doc, i, result, returnedBy>>
  /\ UNCHANGED <<normVars, handlerVars, popupVars>>

\* the visibility test reading display only
Invisible_DisplayOnly(el) == el.display = "none"

\* style.display === "none" || style.visibility === "hidden"
Invisible(el) == el.display = "none" \/ el.visibility = "hidden"

\* the heuristic loop without its wrapper test
Skipped_NoWrapperTest(el) == Invisible(el) \/ el.tagName \in SKIP_TAGS

\* an exclusion test that also looks at the tags of the children
Skipped_NestedKinds(el) ==
  \/ Invisible(el)
  \/ el.tagName \in SKIP_TAGS
  \/ \E k \in 1..Len(el.children) : el.children[k].tagName \in SKIP_TAGS
  \/ directBlockChildren(el) > WRAPPER_LIMIT

\* the three "continue" tests of the heuristic loop
Skipped(el) ==
  \/ Invisible(el)
  \/ el.tagName \in SKIP_TAGS
  \/ directBlockChildren(el) > WRAPPER_LIMIT

\* the comparison written with >=
Beats_OrEqual(len, best) == len >= best

\* text.length > bestLength
Beats(len, best) == len > best

\* an iteration that stores the normalised text back into the element
HeuristicStep_WritesBack ==
  /\ pc = "TRY_HEURISTIC"
  /\ j <= Len(candidates(doc))
  /\ LET k == candidates(doc)[j]
         el == doc.els[k]
         len == Length(ElementText(el))
     IN /\ IF ~Skipped(el) /\ Beats(len, bestLength)
             THEN /\ bestLength' = len
                  /\ bestElement' = k
             ELSE UNCHANGED <<bestElement, bestLength>>
        /\ doc' = [doc EXCEPT !.els[k].innerText = ElementText(el)]
  /\ j' = j + 1
  /\ UNCHANGED <<pc, i, result, returnedBy>>
  /\ UNCHANGED <<normVars, handlerVars, popupVars>>

\* one iteration of the loop over candidates
HeuristicStep ==
  /\ pc = "TRY_HEURISTIC"
  /\ j <= Len(candidates(doc))
  /\ LET k == candidates(doc)[j]
         el == doc.els[k]
         len == Length(ElementText(el))
     IN IF ~Skipped(el) /\ Beats(len, bestLength)
          THEN /\ bestLength' = len
               /\ bestElement' = k
          ELSE UNCHANGED <<bestElement, bestLength>>
  /\ j' = j + 1
  /\ UNCHANGED <<doc, pc, i, result, returnedBy>>
  /\ UNCHANGED <<normVars, handlerVars, popupVars>>

\* bodyText.slice(0, 8000)
Truncate(text) == Slice(text, LAST_RESORT_CAP)

\* a tier-2 return that applies the cap of the last resort
HeuristicReturn_Truncated ==
  /\ pc = "TRY_HEURISTIC"
  /\ j > Len(candidates(doc))
  /\ IF bestElement # NULL /\ bestLength >= MIN_LENGTH
       THEN /\ result' = Truncate(collapseWhitespace(
                           OrElse(doc.els[bestElement].innerText,
                                  doc.els[bestElement].textContent)))
            /\ returnedBy' = "heuristic"
            /\ pc' = "DONE"
       ELSE /\ pc' = "LAST_RESORT"
            /\ UNCHANGED <<result, returnedBy>>
  /\ UNCHANGED <<doc, i, j, bestElement, bestLength>>
  /\ UNCHANGED <<normVars, handlerVars, popupVars>>

\* after the loop: return the best candidate or fall through
HeuristicReturn ==
  /\ pc = "TRY_HEURISTIC"
  /\ j > Len(candidates(doc))
  /\ IF bestElement # NULL /\ bestLength >= MIN_LENGTH
       THEN /\ result' = collapseWhitespace(
                           OrElse(doc.els[bestElement].innerText,
                                  doc.els[bestElement].textContent))
            /\ returnedBy' = "heuristic"
            /\ pc' = "DONE"
       ELSE /\ pc' = "LAST_RESORT"
            /\ UNCHANGED <<result, returnedBy>>
  /\ UNCHANGED <<doc, i, j, bestElement, bestLength>>
  /\ UNCHANGED <<normVars, handlerVars, popupVars>>

\* document.body.innerText throws a TypeError when document.body is null
LastResort ==
  /\ pc = "LAST_RESORT"
  /\ IF doc.body.isNull
       THEN /\ pc' = "THROWN"
            /\ UNCHANGED <<result, returnedBy>>
       ELSE /\ result' = Truncate(collapseWhitespace(
                                    OrElse(doc.body.innerText, EmptyString)))
            /\ returnedBy' = "last_resort"
            /\ pc' = "DONE"
  /\ UNCHANGED <<doc, i, j, bestElement, bestLength>>
  /\ UNCHANGED <<normVars, handlerVars, popupVars>>

Next ==
  \/ SelectorStep
  \/ SelectorsExhausted
  \/ HeuristicStep
  \/ HeuristicReturn
  \/ LastResort

Spec == Init /\ [][Next]_vars

(***************************************************************************)
(* collapseWhitespace applied to arbitrary strings, once and twice         *)
(***************************************************************************)
NormInit ==
  /\ \E k \in 0..MaxRuns : str \in StringsOfRuns(k)
  /\ once = EmptyString
  /\ twice = EmptyString
  /\ npc = "input"
  /\ doc = EmptyDocument
  /\ pc = "IDLE"
  /\ i = 1
  /\ j = 1
  /\ bestElement = NULL
  /\ bestLength = 0
  /\ result = EmptyString
  /\ returnedBy = "none"
  /\ HandlerIdle
  /\ PopupIdle

Normalize ==
  /\ npc = "input"
  /\ once' = collapseWhitespace(str)
  /\ npc' = "once"
  /\ UNCHANGED <<str, twice>>
  /\ UNCHANGED <<extractVars, handlerVars, popupVars>>

Renormalize ==
  /\ npc = "once"
  /\ twice' = collapseWhitespace(once)
  /\ npc' = "twice"
  /\ UNCHANGED <<str, once>>
  /\ UNCHANGED <<extractVars, handlerVars, popupVars>>

NormNext == Normalize \/ Renormalize

NormSpec == NormInit /\ [][NormNext]_vars

(***************************************************************************)
(* api/generate.js: handler(req, res), run twice on the same request and   *)
(* the same upstream replies under two values of ANTHROPIC_API_KEY         *)
(***************************************************************************)
ExtractIdle ==
  /\ doc = EmptyDocument
  /\ pc = "IDLE"
  /\ i = 1
  /\ j = 1
  /\ bestElement = NULL
  /\ bestLength = 0
  /\ result = EmptyString
  /\ returnedBy = "none"

NormIdle ==
  /\ str = EmptyString
  /\ once = EmptyString
  /\ twice = EmptyString
  /\ npc = "idle"

ANTHROPIC_API_URL == "https://api.anthropic.com/v1/messages"

MIN_FIELD_LENGTH == 50

\* values a JSON body can carry in a field
StringValue(text) == [type |-> "string", text |-> text]
NumberValue == [type |-> "number", text |-> EmptyString]

\* !v for the values above (the number modelled is not zero)
Falsy(v) ==
  \/ v.type \in {"undefined", "null"}
  \/ v.type = "string" /\ v.text = EmptyString

\* const { resume, jobDescription } = req.body ?? {}
BodyOrEmpty(body) ==
  IF body.isNull
    THEN [isNull |-> FALSE, resume |-> Undefined, jobDescription |-> Undefined]
    ELSE body

\* the length test taken on the untrimmed string
FieldInvalid_Untrimmed(v) ==
  Falsy(v) \/ v.type # "string" \/ Length(v.text) < MIN_FIELD_LENGTH

\* !v || typeof v !== "string" || v.trim().length < 50
FieldInvalid(v) ==
  Falsy(v) \/ v.type # "string" \/ Length(Trim(v.text)) < MIN_FIELD_LENGTH

\* req.method === "OPTIONS"
IsPreflight(method) == method = "OPTIONS"

\* a handler that lets GET through to validation
MethodNotAllowed_ExceptGet(method) == method \notin {"POST", "GET"}

\* req.method !== "POST"
MethodNotAllowed(method) == method # "POST"

\* the key test taken on the trimmed key
KeyMissing_OrBlank(key) == Trim(key) = EmptyString

\* !apiKey
KeyMissing(key) == key = EmptyString

\* fetch strips leading and trailing HTTP whitespace from a header value
HeaderValue(v) == Trim(v)

\* fetch rejects with a TypeError when a header value contains a line break
HeaderValueRejected(v) == HasChar(HeaderValue(v), LF) \/ HasChar(HeaderValue(v), CR)

\* a handler that takes any 2xx reply as content
ContentEmpty_Never(text) == FALSE

\* !tailoredText
ContentEmpty(text) == text = EmptyString

\* res.status(204).end()
EmptyResponse(status) == [status |-> status, kind |-> "end", body |-> <<>>]

\* res.status(status).json({ error }): the error string is the fixed text
\* followed by the detail, which is a message or "HTTP " and a status
ErrorResponse(status, error, detail, detailStatus) ==
  [status |-> status, kind |-> "json",
   body |-> [error |-> [text |-> error, detail |-> detail,
                        detailStatus |-> detailStatus]]]

\* res.status(200).json({ tailoredResume: tailoredText, atsScore })
ResultResponse(text, atsScore) ==
  [status |-> 200, kind |-> "json",
   body |-> [tailoredResume |-> text, atsScore |-> atsScore]]

\* fetch(ANTHROPIC_API_URL, { headers: { "x-api-key": apiKey, ... }, body })
AnthropicCall(key, purpose, resume, tailored, jobDescription) ==
  [url |-> ANTHROPIC_API_URL, xApiKey |-> HeaderValue(key),
   purpose |-> purpose,
   body |-> [resume |-> resume, tailoredResume |-> tailored,
             jobDescription |-> jobDescription]]

\* the reply of a fetch that rejects
NetworkError ==
  [kind |-> "network_error", ok |-> FALSE, status |-> 0,
   message |-> EmptyString, isJson |-> FALSE, textType |-> "undefined",
   text |-> EmptyString, json |-> NoJson]

\* an HTTP reply: error.message of its JSON body (empty when there is none),
\* whether response.json() resolves, typeof content[0].text and the text
\* itself, and what JSON.parse makes of that text
HttpReply(ok, status, message, isJson, textType, text, json) ==
  [kind |-> "http", ok |-> ok, status |-> status, message |-> message,
   isJson |-> isJson, textType |-> textType, text |-> text, json |-> json]

\* a reply whose body is JSON with the string text at content[0].text
TextReply(text, json) ==
  HttpReply(TRUE, 200, EmptyString, TRUE, "string", text, json)

\* a reply of status 200 whose body is not as expected
OddReply(isJson, textType) ==
  HttpReply(TRUE, 200, EmptyString, isJson, textType, EmptyString, NoJson)

Score(tenths) == [type |-> "number", tenths |-> tenths]

Keywords(items) == [isArray |-> TRUE, items |-> items]

Props(score, matched, missing, advice) ==
  [score |-> score, matchedKeywords |-> matched, missingKeywords |-> missing,
   advice |-> advice]

\* JSON.parse(trimmed) gives a value of the kind whole
WholeJson(whole, truthy, props) ==
  [whole |-> whole, truthy |-> truthy, braces |-> "none", props |-> props]

\* JSON.parse(trimmed) throws; braces says whether the text has a span from
\* its first "{" to its last "}" and whether that span parses
BracedJson(braces, props) ==
  [whole |-> "invalid", truthy |-> FALSE, braces |-> braces, props |-> props]

\* the value null
JsNull == [kind |-> "null", truthy |-> FALSE, props |-> NoProps]

\* extractJsonObject(text): null unless text is a string; the value of the
\* whole text when it parses; else the value of the span in braces when
\* there is one and it parses; else null
extractJsonObject(textType, json) ==
  IF textType # "string" THEN JsNull
  ELSE IF json.whole # "invalid"
    THEN [kind |-> json.whole, truthy |-> json.truthy,
          props |-> IF json.whole = "object" THEN json.props ELSE NoProps]
  ELSE IF json.braces = "none" THEN JsNull
  ELSE IF json.braces = "object"
    THEN [kind |-> "object", truthy |-> TRUE, props |-> json.props]
  ELSE JsNull

\* typeof v
TypeOf(v) == IF v.kind \in {"object", "array", "null"} THEN "object" ELSE v.kind

\* !atsObj || typeof atsObj !== "object"
AtsRejected(atsObj) == ~atsObj.truthy \/ TypeOf(atsObj) # "object"

\* rounding toward zero
Round_TowardZero(tenths) ==
  IF tenths >= 0 THEN tenths \div 10 ELSE 0 - ((0 - tenths) \div 10)

\* Math.round(x) for x given in tenths: the nearest integer, a half going up
Round(tenths) == (tenths + 5) \div 10

\* typeof score === "number"
\*   ? Math.max(0, Math.min(100, Math.round(score))) : 0
ClampScore(score) ==
  IF score.type # "number" THEN 0
  ELSE IF Round(score.tenths) < 0 THEN 0
  ELSE IF Round(score.tenths) > 100 THEN 100
  ELSE Round(score.tenths)

\* Array.isArray(k)
\*   ? k.filter((s) => typeof s === "string" && s.trim()).map((s) => s.trim())
\*   : []
CleanKeywords(k) ==
  IF ~k.isArray THEN <<>>
  ELSE LET kept == SelectSeq(k.items,
                     LAMBDA s : s.type = "string" /\ Trim(s.text) # EmptyString)
       IN [n \in 1..Len(kept) |-> Trim(kept[n].text)]

\* typeof advice === "string" ? advice.trim() : ""
CleanAdvice(advice) ==
  IF advice.type = "string" THEN Trim(advice.text) ELSE EmptyString

\* the atsScore object of the 200 response
AtsScore(atsObj) ==
  [score |-> ClampScore(atsObj.props.score),
   matchedKeywords |-> CleanKeywords(atsObj.props.matchedKeywords),
   missingKeywords |-> CleanKeywords(atsObj.props.missingKeywords),
   advice |-> CleanAdvice(atsObj.props.advice)]

\* the requests, replies and keys explored
Methods == {"OPTIONS", "GET", "POST"}

\* 69 characters of which 49 remain after trim()
PaddedShortField == <<Run(SP, 10), Run("a", 49), Run(LF, 10)>>

\* 52 characters of which 50 remain after trim()
PaddedField == <<Run(TAB, 1), Run("b", 50), Run(SP, 1)>>

FieldValues ==
  {Undefined, NullValue, NumberValue, StringValue(EmptyString),
   StringValue(PaddedShortField), StringValue(PaddedField)}

RequestBodies ==
  {NoRequest.body} \cup
  {[isNull |-> FALSE, resume |-> r, jobDescription |-> d] :
     r \in FieldValues, d \in FieldValues}

TailorReplies ==
  {NetworkError,
   HttpReply(FALSE, 401, <<Run("c", 12)>>, TRUE, "undefined", EmptyString,
             NoJson),
   HttpReply(FALSE, 500, EmptyString, FALSE, "undefined", EmptyString, NoJson),
   OddReply(FALSE, "undefined"),
   OddReply(TRUE, "undefined"),
   OddReply(TRUE, "number"),
   TextReply(EmptyString, NoJson),
   TextReply(<<Run(SP, 2)>>, NoJson),
   TextReply(<<Run(LF, 1), Run("c", 30), Run(SP, 1)>>, NoJson)}

\* keywords as a model may send them: padded, blank, empty and not strings
MixedKeywords ==
  Keywords(<<StringValue(<<Run(SP, 1), Run("a", 4), Run(SP, 2)>>),
             StringValue(<<Run(SP, 3)>>), NumberValue,
             StringValue(EmptyString),
             StringValue(<<Run("b", 6)>>)>>)

PlainKeywords == Keywords(<<StringValue(<<Run("c", 3)>>)>>)

PaddedAdvice == StringValue(<<Run(LF, 1), Run("a", 40), Run(SP, 1)>>)

\* scores in tenths: halves, values next to them, and values out of range
ScoreTenths == {0 - 50, 0 - 6, 0 - 5, 4, 25, 874, 875, 995, 1004, 1500}

ObjectProps ==
  {Props(Score(t), MixedKeywords, PlainKeywords, PaddedAdvice) :
     t \in ScoreTenths}
  \cup
  {Props(NoScore, NoKeywords, NoKeywords, Undefined),
   Props([type |-> "string", tenths |-> 0], PlainKeywords,
         [isArray |-> FALSE, items |-> <<>>], NumberValue)}

AtsReplies ==
  {NetworkError,
   HttpReply(FALSE, 529, <<Run("b", 9)>>, TRUE, "undefined", EmptyString,
             NoJson),
   OddReply(FALSE, "undefined"),
   OddReply(TRUE, "undefined"),
   OddReply(TRUE, "number"),
   TextReply(<<Run("a", 5)>>, NoJson),
   TextReply(<<Run("a", 6)>>, BracedJson("invalid", NoProps)),
   TextReply(<<Run("a", 7)>>, WholeJson("array", TRUE, NoProps)),
   TextReply(<<Run("a", 8)>>, WholeJson("number", TRUE, NoProps)),
   TextReply(<<Run("a", 9)>>, WholeJson("number", FALSE, NoProps)),
   TextReply(<<Run("a", 10)>>, WholeJson("string", TRUE, NoProps)),
   TextReply(<<Run("a", 11)>>, WholeJson("boolean", TRUE, NoProps)),
   TextReply(<<Run("a", 12)>>, WholeJson("null", FALSE, NoProps))}
  \cup
  {TextReply(<<Run("a", 20)>>, WholeJson("object", TRUE, p)) :
     p \in ObjectProps}
  \cup
  {TextReply(<<Run("a", 30)>>,
             BracedJson("object",
                        Props(Score(870), PlainKeywords, MixedKeywords,
                              PaddedAdvice)))}

\* unset, two ordinary keys, a key of spaces, and a key with a line break
\* inside
Keys ==
  {EmptyString, <<Run("a", 8)>>, <<Run("b", 8)>>, <<Run(SP, 3)>>,
   <<Run("a", 4), Run(LF, 1), Run("a", 4)>>}

\* the upstream replies are varied for the POST requests with two strings;
\* for the other requests there is no upstream reply to vary
HasStringFields(request) ==
  /\ request.method = "POST"
  /\ ~request.body.isNull
  /\ request.body.resume.type = "string"
  /\ request.body.jobDescription.type = "string"

HandlerInit ==
  /\ \E m \in Methods : \E b \in RequestBodies : req = [method |-> m, body |-> b]
  /\ \E t \in TailorReplies : \E a \in AtsReplies :
        /\ HasStringFields(req) \/ (t = NetworkError /\ a = NetworkError)
        /\ upstream = [tailor |-> t, ats |-> a]
  /\ apiKey \in [Runs -> Keys]
  /\ hpc = [r \in Runs |-> "start"]
  /\ tailoredText = [r \in Runs |-> EmptyString]
  /\ calls = [r \in Runs |-> <<>>]
  /\ res = [r \in Runs |-> NoResponse]
  /\ ExtractIdle
  /\ NormIdle
  /\ PopupIdle

\* an exception that nothing catches: the handler ends without a response
Throw(r) ==
  /\ hpc' = [hpc EXCEPT ![r] = "thrown"]
  /\ UNCHANGED res

\* return res.status(...)...
Respond(r, response) ==
  /\ res' = [res EXCEPT ![r] = response]
  /\ hpc' = [hpc EXCEPT ![r] = "done"]

\* errorBody?.error?.message || `HTTP ${status}`, as the pair (message, status)
Detail(reply) ==
  IF reply.message # EmptyString
    THEN [message |-> reply.message, status |-> 0]
    ELSE [message |-> EmptyString, status |-> reply.status]

\* a handler that tests the server key before it validates the body
Receive_KeyFirst(r) ==
  /\ hpc[r] = "start"
  /\ LET body == BodyOrEmpty(req.body) IN
     IF IsPreflight(req.method)
       THEN Respond(r, EmptyResponse(204)) /\ UNCHANGED calls
     ELSE IF MethodNotAllowed(req.method)
       THEN /\ Respond(r, ErrorResponse(405, "Method not allowed. Use POST.",
                                        EmptyString, 0))
            /\ UNCHANGED calls
     ELSE IF KeyMissing(apiKey[r])
       THEN /\ Respond(r, ErrorResponse(500,
                 "Server configuration error. API key not set.",
                 EmptyString, 0))
            /\ UNCHANGED calls
     ELSE IF FieldInvalid(body.resume)
       THEN /\ Respond(r, ErrorResponse(400,
                 "Missing or too-short resume field in request body.",
                 EmptyString, 0))
            /\ UNCHANGED calls
     ELSE IF FieldInvalid(body.jobDescription)
       THEN /\ Respond(r, ErrorResponse(400,
                 "Missing or too-short jobDescription field in request body.",
                 EmptyString, 0))
            /\ UNCHANGED calls
     ELSE IF HeaderValueRejected(apiKey[r])
       THEN /\ Respond(r, ErrorResponse(502,
                 "Could not reach the Anthropic API. Please try again.",
                 EmptyString, 0))
            /\ UNCHANGED calls
     ELSE /\ calls' = [calls EXCEPT ![r] =
                 Append(@, AnthropicCall(apiKey[r], "tailor",
                                         Trim(body.resume.text), EmptyString,
                                         Trim(body.jobDescription.text)))]
          /\ hpc' = [hpc EXCEPT ![r] = "await_tailor"]
          /\ UNCHANGED res
  /\ UNCHANGED <<req, upstream, apiKey, tailoredText>>
  /\ UNCHANGED <<extractVars, normVars, popupVars>>

\* the handler from its entry to its first await
Receive(r) ==
  /\ hpc[r] = "start"
  /\ LET body == BodyOrEmpty(req.body) IN
     IF IsPreflight(req.method)
       THEN Respond(r, EmptyResponse(204)) /\ UNCHANGED calls
     ELSE IF MethodNotAllowed(req.method)
       THEN /\ Respond(r, ErrorResponse(405, "Method not allowed. Use POST.",
                                        EmptyString, 0))
            /\ UNCHANGED calls
     ELSE IF FieldInvalid(body.resume)
       THEN /\ Respond(r, ErrorResponse(400,
                 "Missing or too-short resume field in request body.",
                 EmptyString, 0))
            /\ UNCHANGED calls
     ELSE IF FieldInvalid(body.jobDescription)
       THEN /\ Respond(r, ErrorResponse(400,
                 "Missing or too-short jobDescription field in request body.",
                 EmptyString, 0))
            /\ UNCHANGED calls
     ELSE IF KeyMissing(apiKey[r])
       THEN /\ Respond(r, ErrorResponse(500,
                 "Server configuration error. API key not set.",
                 EmptyString, 0))
            /\ UNCHANGED calls
     ELSE IF HeaderValueRejected(apiKey[r])
       THEN /\ Respond(r, ErrorResponse(502,
                 "Could not reach the Anthropic API. Please try again.",
                 EmptyString, 0))
            /\ UNCHANGED calls
     ELSE /\ calls' = [calls EXCEPT ![r] =
                 Append(@, AnthropicCall(apiKey[r], "tailor",
                                         Trim(body.resume.text), EmptyString,
                                         Trim(body.jobDescription.text)))]
          /\ hpc' = [hpc EXCEPT ![r] = "await_tailor"]
          /\ UNCHANGED res
  /\ UNCHANGED <<req, upstream, apiKey, tailoredText>>
  /\ UNCHANGED <<extractVars, normVars, popupVars>>

\* the first fetch settles: error replies, or the second fetch is issued
TailorReply(r) ==
  /\ hpc[r] = "await_tailor"
  /\ LET reply == upstream.tailor
         \* claudeData?.content?.[0]?.text?.trim()
         text == IF reply.textType = "string" THEN Trim(reply.text)
                 ELSE EmptyString
     IN
     IF reply.kind = "network_error"
       THEN /\ Respond(r, ErrorResponse(502,
                 "Could not reach the Anthropic API. Please try again.",
                 EmptyString, 0))
            /\ UNCHANGED <<calls, tailoredText>>
     ELSE IF ~reply.ok
       THEN /\ Respond(r, ErrorResponse(502, "Claude API error: ",
                                        Detail(reply).message,
                                        Detail(reply).status))
            /\ UNCHANGED <<calls, tailoredText>>
     ELSE IF ~reply.isJson \/ reply.textType = "number"
       THEN Throw(r) /\ UNCHANGED <<calls, tailoredText>>
     ELSE IF ContentEmpty(text)
       THEN /\ Respond(r, ErrorResponse(502,
                 "Claude returned an empty response. Please try again.",
                 EmptyString, 0))
            /\ UNCHANGED <<calls, tailoredText>>
     ELSE /\ tailoredText' = [tailoredText EXCEPT ![r] = text]
          /\ calls' = [calls EXCEPT ![r] =
                 Append(@, AnthropicCall(apiKey[r], "ats", EmptyString, text,
                                         Trim(req.body.jobDescription.text)))]
          /\ hpc' = [hpc EXCEPT ![r] = "await_ats"]
          /\ UNCHANGED res
  /\ UNCHANGED <<req, upstream, apiKey>>
  /\ UNCHANGED <<extractVars, normVars, popupVars>>

\* the second fetch settles: error replies, or the 200 response
AtsReply(r) ==
  /\ hpc[r] = "await_ats"
  /\ LET reply == upstream.ats
         atsObj == extractJsonObject(reply.textType, reply.json)
     IN
     IF reply.kind = "network_error"
       THEN Respond(r, ErrorResponse(502,
              "Could not reach the Anthropic API for ATS scoring. Please try again.",
              EmptyString, 0))
     ELSE IF ~reply.ok
       THEN Respond(r, ErrorResponse(502, "Claude API ATS error: ",
                                     Detail(reply).message,
                                     Detail(reply).status))
     ELSE IF ~reply.isJson \/ reply.textType = "number"
       THEN Throw(r)
     ELSE IF AtsRejected(atsObj)
       THEN Respond(r, ErrorResponse(502,
              "Claude returned an invalid ATS scoring response. Please try again.",
              EmptyString, 0))
     ELSE Respond(r, ResultResponse(tailoredText[r], AtsScore(atsObj)))
  /\ UNCHANGED <<req, upstream, apiKey, tailoredText, calls>>
  /\ UNCHANGED <<extractVars, normVars, popupVars>>

HandlerNext == \E r \in Runs : Receive(r) \/ TailorReply(r) \/ AtsReply(r)

HandlerSpec == HandlerInit /\ [][HandlerNext]_vars

(***************************************************************************)
(* popup.js (v2): init, the auto-scrape and the click handlers.  Every     *)
(* await is a point where the handler stops and another handler may run;   *)
(* a task is one running handler and the await it is stopped at.           *)
(***************************************************************************)
MaxClicks == 3

MIN_JOB_TEXT == 150

\* init and one handler for each click
TaskIds == 1..(MaxClicks + 1)

\* a handler stopped at an await; stored is what storage.get read for it
Task(handler, at, stored) == [handler |-> handler, at |-> at, stored |-> stored]

\* a switch that reveals the named screen and leaves the other as it is
showScreen_RevealOnly(d, name) ==
  IF name = "onboarding"
    THEN [d EXCEPT !.screenOnboarding_hidden = FALSE]
    ELSE [d EXCEPT !.screenMain_hidden = FALSE]

\* showScreen(name)
showScreen(d, name) ==
  IF name = "onboarding"
    THEN [d EXCEPT !.screenMain_hidden = TRUE, !.screenOnboarding_hidden = FALSE]
    ELSE [d EXCEPT !.screenOnboarding_hidden = TRUE, !.screenMain_hidden = FALSE]

\* setGenerating(on)
setGenerating(d, on) == [d EXCEPT !.btnGenerate_disabled = on]

\* showError(msg)
showError(d) == [d EXCEPT !.errorBanner_hidden = FALSE]

\* hideError()
hideError(d) == [d EXCEPT !.errorBanner_hidden = TRUE]

\* !pickedFileText || pickedFileText.trim().length < 50
FileRejected(v) == Falsy(v) \/ Length(Trim(v.text)) < MIN_FIELD_LENGTH

\* the length test taken on the untrimmed text
JobTextMissing_Untrimmed(v) == Falsy(v) \/ Length(v.text) < MIN_JOB_TEXT

\* !jobText || jobText.trim().length < 150
JobTextMissing(v) == Falsy(v) \/ Length(Trim(v.text)) < MIN_JOB_TEXT

\* the resume a previous session saved
SavedResume == StringValue(<<Run("b", 50)>>)

\* what the file reader hands over
FileTexts == {PaddedShortField, PaddedField}

\* the active tab: an http(s) page, another page, or tabs.query rejects
TabKinds == {"http", "other", "rejected"}

\* tab?.url?.startsWith("http")
TabScriptable(kind) == kind = "http"

\* executeScript: it rejects, or content.js returns a text
ScrapeOutcome(threw, text) == [threw |-> threw, text |-> text]

ScrapeOutcomes ==
  {ScrapeOutcome(TRUE, EmptyString), ScrapeOutcome(FALSE, EmptyString),
   ScrapeOutcome(FALSE, <<Run("a", 149)>>),
   ScrapeOutcome(FALSE, <<Run("a", 149), Run(SP, 1)>>),
   ScrapeOutcome(FALSE, <<Run("a", 150)>>),
   ScrapeOutcome(FALSE, <<Run(LF, 1), Run("a", 150)>>)}

\* fetch(BACKEND_URL, { method: "POST", body: JSON.stringify({ resume,
\* jobDescription }) }) by the handler of task t
BackendRequest(t, resume, jobDescription) ==
  [task |-> t, method |-> "POST",
   body |-> [resume |-> resume, jobDescription |-> jobDescription]]

\* fetch(BACKEND_URL): it rejects, or the backend answers
BackendReply(kind, ok, tailoredResume) ==
  [kind |-> kind, ok |-> ok, tailoredResume |-> tailoredResume]

BackendReplies ==
  {BackendReply("network_error", FALSE, EmptyString),
   BackendReply("http", FALSE, EmptyString),
   BackendReply("http", TRUE, EmptyString),
   BackendReply("http", TRUE, <<Run("c", 30)>>)}

\* popup.html is loaded, the script has run to the await in init()
PopupInit ==
  /\ storage \in {Undefined, SavedResume}
  /\ pickedFileText = NullValue
  /\ scrapedJobText = NullValue
  /\ lastResult = NullValue
  /\ \E m \in BOOLEAN : \E o \in BOOLEAN : \E g \in BOOLEAN : dom = Dom(m, o, g)
  /\ tasks = <<Task("init", "get", storage)>>
  /\ clicks = 0
  /\ last = {}
  /\ sent = <<>>
  /\ ExtractIdle
  /\ NormIdle
  /\ HandlerIdle

\* no function is about to resume its caller
Quiet == \A t \in 1..Len(tasks) : tasks[t].at # "scraped"

\* init() has switched to a screen
Shown == tasks[1].at # "get"

Move(t, at) == tasks' = [tasks EXCEPT ![t].at = at]

\* init() after its storage.get
InitResumed(t) ==
  /\ t <= Len(tasks)
  /\ Quiet
  /\ tasks[t].handler = "init"
  /\ tasks[t].at = "get"
  /\ IF ~Falsy(tasks[t].stored)
       THEN /\ dom' = showScreen(dom, "main")
            /\ Move(t, "query")
            /\ last' = {"init_screen"}
       ELSE /\ dom' = showScreen(dom, "onboarding")
            /\ Move(t, "done")
            /\ last' = {"init_screen", "init_done"}
  /\ UNCHANGED <<storage, pickedFileText, scrapedJobText, lastResult, clicks>>
  /\ UNCHANGED sent
  /\ UNCHANGED <<extractVars, normVars, handlerVars>>

\* autoScrapeJobDescription after tabs.query: the guard on the tab's URL
ScrapeTabs(t) ==
  /\ t <= Len(tasks)
  /\ Quiet
  /\ tasks[t].at = "query"
  /\ \E kind \in TabKinds :
       IF TabScriptable(kind)
         THEN Move(t, "inject") /\ last' = {}
         ELSE Move(t, "scraped") /\ last' = {"scrape_done"}
  /\ UNCHANGED <<storage, pickedFileText, scrapedJobText, lastResult, dom,
                 clicks>>
  /\ UNCHANGED sent
  /\ UNCHANGED <<extractVars, normVars, handlerVars>>

\* autoScrapeJobDescription after executeScript
ScrapeInjected(t) ==
  /\ t <= Len(tasks)
  /\ Quiet
  /\ tasks[t].at = "inject"
  /\ \E o \in ScrapeOutcomes :
       /\ scrapedJobText' =
            IF ~o.threw /\ Length(o.text) >= MIN_JOB_TEXT
              THEN StringValue(o.text)
              ELSE scrapedJobText
       /\ dom' = [dom EXCEPT !.btnGenerate_disabled = FALSE]
  /\ Move(t, "scraped")
  /\ last' = {"scrape_done"}
  /\ UNCHANGED <<storage, pickedFileText, lastResult, clicks>>
  /\ UNCHANGED sent
  /\ UNCHANGED <<extractVars, normVars, handlerVars>>

\* the catch and finally blocks of the Generate handler
GenerateFailed(t) ==
  /\ dom' = setGenerating(showError(dom), FALSE)
  /\ Move(t, "done")
  /\ last' = {"generate_failed"}
  /\ UNCHANGED <<lastResult, sent>>

\* the Generate handler from the second length test to its fetch
GenerateRequest(t) ==
  IF JobTextMissing(scrapedJobText)
    THEN GenerateFailed(t)
    ELSE /\ sent' = Append(sent,
                    BackendRequest(t, Trim(tasks[t].stored.text),
                                   Trim(scrapedJobText.text)))
         /\ Move(t, "fetch")
         /\ last' = {}
         /\ UNCHANGED <<dom, lastResult>>

\* autoScrapeJobDescription has returned: its caller resumes
ScrapeReturned(t) ==
  /\ t <= Len(tasks)
  /\ tasks[t].at = "scraped"
  /\ CASE tasks[t].handler = "init" ->
            /\ Move(t, "done")
            /\ last' = {"init_done"}
            /\ UNCHANGED <<dom, lastResult, sent>>
       [] tasks[t].handler = "save" ->
            /\ Move(t, "done")
            /\ last' = {"save_done"}
            /\ UNCHANGED <<dom, lastResult, sent>>
       [] tasks[t].handler = "generate" -> GenerateRequest(t)
  /\ UNCHANGED <<storage, pickedFileText, scrapedJobText, clicks>>
  /\ UNCHANGED <<extractVars, normVars, handlerVars>>

\* reader.onload
FilePicked ==
  /\ Quiet
  /\ Shown
  /\ ~dom.screenOnboarding_hidden
  /\ \E text \in FileTexts : pickedFileText' = StringValue(text)
  /\ last' = {"file_picked"}
  /\ UNCHANGED <<storage, scrapedJobText, lastResult, dom, tasks, clicks>>
  /\ UNCHANGED sent
  /\ UNCHANGED <<extractVars, normVars, handlerVars>>

\* click on btnSaveSetup, up to storage.set
SaveClick ==
  /\ Quiet
  /\ Shown
  /\ ~dom.screenOnboarding_hidden
  /\ clicks < MaxClicks
  /\ clicks' = clicks + 1
  /\ IF FileRejected(pickedFileText)
       THEN /\ last' = {"save_rejected"}
            /\ UNCHANGED <<storage, tasks>>
       ELSE /\ storage' = StringValue(Trim(pickedFileText.text))
            /\ tasks' = Append(tasks, Task("save", "set", Undefined))
            /\ last' = {"save_clicked"}
  /\ UNCHANGED <<pickedFileText, scrapedJobText, lastResult, dom>>
  /\ UNCHANGED sent
  /\ UNCHANGED <<extractVars, normVars, handlerVars>>

\* the Save handler after its storage.set
SaveStored(t) ==
  /\ t <= Len(tasks)
  /\ Quiet
  /\ tasks[t].handler = "save"
  /\ tasks[t].at = "set"
  /\ dom' = showScreen(dom, "main")
  /\ Move(t, "query")
  /\ last' = {"save_screen"}
  /\ UNCHANGED <<storage, pickedFileText, scrapedJobText, lastResult, clicks>>
  /\ UNCHANGED sent
  /\ UNCHANGED <<extractVars, normVars, handlerVars>>

\* click on btnGenerate, up to storage.get
GenerateClick ==
  /\ Quiet
  /\ Shown
  /\ ~dom.screenMain_hidden
  /\ ~dom.btnGenerate_disabled
  /\ clicks < MaxClicks
  /\ clicks' = clicks + 1
  /\ dom' = setGenerating(hideError(dom), TRUE)
  /\ tasks' = Append(tasks, Task("generate", "get", storage))
  /\ last' = {"generate_clicked"}
  /\ UNCHANGED <<storage, pickedFileText, scrapedJobText, lastResult>>
  /\ UNCHANGED sent
  /\ UNCHANGED <<extractVars, normVars, handlerVars>>

\* the Generate handler after its storage.get
GenerateLoaded(t) ==
  /\ t <= Len(tasks)
  /\ Quiet
  /\ tasks[t].handler = "generate"
  /\ tasks[t].at = "get"
  /\ IF Falsy(tasks[t].stored)
       THEN GenerateFailed(t)
       ELSE IF JobTextMissing(scrapedJobText)
         THEN /\ Move(t, "query")
              /\ last' = {}
              /\ UNCHANGED <<dom, lastResult, sent>>
         ELSE GenerateRequest(t)
  /\ UNCHANGED <<storage, pickedFileText, scrapedJobText, clicks>>
  /\ UNCHANGED <<extractVars, normVars, handlerVars>>

\* the Generate handler after its fetch
GenerateFetched(t) ==
  /\ t <= Len(tasks)
  /\ Quiet
  /\ tasks[t].handler = "generate"
  /\ tasks[t].at = "fetch"
  /\ \E reply \in BackendReplies :
       IF reply.kind = "http" /\ reply.ok /\ reply.tailoredResume # EmptyString
         THEN /\ lastResult' = StringValue(reply.tailoredResume)
              /\ dom' = setGenerating(
                          [dom EXCEPT !.btnCopy_disabled = FALSE,
                                      !.btnDownload_disabled = FALSE], FALSE)
              /\ Move(t, "done")
              /\ last' = {"generate_done"}
              /\ UNCHANGED sent
         ELSE GenerateFailed(t)
  /\ UNCHANGED <<storage, pickedFileText, scrapedJobText, clicks>>
  /\ UNCHANGED <<extractVars, normVars, handlerVars>>

\* click on btnReset and the confirm dialog, up to storage.remove
ResetClick ==
  /\ Quiet
  /\ Shown
  /\ ~dom.screenMain_hidden
  /\ clicks < MaxClicks
  /\ clicks' = clicks + 1
  /\ \E confirmed \in BOOLEAN :
       IF ~confirmed
         THEN /\ last' = {"reset_cancelled"}
              /\ UNCHANGED <<storage, tasks>>
         ELSE /\ storage' = Undefined
              /\ tasks' = Append(tasks, Task("reset", "remove", Undefined))
              /\ last' = {"reset_confirmed"}
  /\ UNCHANGED <<pickedFileText, scrapedJobText, lastResult, dom>>
  /\ UNCHANGED sent
  /\ UNCHANGED <<extractVars, normVars, handlerVars>>

\* a Reset handler that leaves lastResult and the Copy button as they are
ResetRemoved_KeepsResult(t) ==
  /\ t <= Len(tasks)
  /\ Quiet
  /\ tasks[t].handler = "reset"
  /\ tasks[t].at = "remove"
  /\ scrapedJobText' = NullValue
  /\ pickedFileText' = NullValue
  /\ dom' = showScreen([dom EXCEPT !.btnDownload_disabled = TRUE],
                       "onboarding")
  /\ Move(t, "done")
  /\ last' = {"reset_done"}
  /\ UNCHANGED <<storage, lastResult, clicks>>
  /\ UNCHANGED sent
  /\ UNCHANGED <<extractVars, normVars, handlerVars>>

\* the Reset handler after its storage.remove
ResetRemoved(t) ==
  /\ t <= Len(tasks)
  /\ Quiet
  /\ tasks[t].handler = "reset"
  /\ tasks[t].at = "remove"
  /\ scrapedJobText' = NullValue
  /\ lastResult' = NullValue
  /\ pickedFileText' = NullValue
  /\ dom' = showScreen([dom EXCEPT !.btnCopy_disabled = TRUE,
                                   !.btnDownload_disabled = TRUE],
                       "onboarding")
  /\ Move(t, "done")
  /\ last' = {"reset_done"}
  /\ UNCHANGED <<storage, clicks>>
  /\ UNCHANGED sent
  /\ UNCHANGED <<extractVars, normVars, handlerVars>>

PopupNext ==
  \/ FilePicked
  \/ SaveClick
  \/ GenerateClick
  \/ ResetClick
  \/ \E t \in TaskIds :
       \/ InitResumed(t)
       \/ ScrapeTabs(t)
       \/ ScrapeInjected(t)
       \/ ScrapeReturned(t)
       \/ SaveStored(t)
       \/ GenerateLoaded(t)
       \/ GenerateFetched(t)
       \/ ResetRemoved(t)

PopupSpec == PopupInit /\ [][PopupNext]_vars

TypeOK ==
  /\ pc \in {"IDLE", "TRY_SELECTORS", "TRY_HEURISTIC", "LAST_RESORT", "DONE", "THROWN"}
  /\ npc \in {"idle", "input", "once", "twice"}
  /\ i \in 1..(Len(KNOWN_SELECTORS) + 1)
  /\ returnedBy \in {"none", "selectors", "heuristic", "last_resort"}

(***************************************************************************)
(* Notions the properties are stated with                                  *)
(***************************************************************************)
Terminated == pc \in {"DONE", "THROWN"}

ElementIds(d) == 1..Len(d.els)

\* the elements matching some entry of the selector list
Targeted(d) ==
  {e \in ElementIds(d) :
     \E k \in 1..Len(KNOWN_SELECTORS) : Matches(d.els[e], KNOWN_SELECTORS[k])}

Qualifies(d, e) == Length(ElementText(d.els[e])) >= MIN_LENGTH

\* the selectors whose first match in document order qualifies
HitSelectors(d) ==
  {k \in 1..Len(KNOWN_SELECTORS) :
     /\ querySelector(d, KNOWN_SELECTORS[k]) # NULL
     /\ Qualifies(d, querySelector(d, KNOWN_SELECTORS[k]))}

\* the candidates of the heuristic scan that pass its three filters
Eligible(d) ==
  {e \in ElementIds(d) :
     /\ d.els[e].tagName \in CANDIDATE_TAGS
     /\ d.els[e].display # "none" /\ d.els[e].visibility # "hidden"
     /\ d.els[e].tagName \notin SKIP_TAGS
     /\ directBlockChildren(d.els[e]) <= 12}

\* the text of a longest element of the set es
IsLongestTextOf(text, d, es) ==
  /\ \E e \in es : text = ElementText(d.els[e])
  /\ \A e \in es : Length(ElementText(d.els[e])) <= Length(text)

\* what is rendered of an element: nothing when it is not displayed
VisibleText(el) == IF el.display = "none" THEN EmptyString ELSE el.innerText

NormalizedBodyText(d) == collapseWhitespace(d.body.innerText)

(***************************************************************************)
(* C1: whenever some element matching an entry of the selector list has    *)
(* at least 200 normalised characters, what extract() returns is the       *)
(* normalised text of such an element: the first one of the first selector *)
(* that has one.                                                           *)
(***************************************************************************)
C1_AnyQualifyingMatchReturned ==
  LET qualifying == {e \in Targeted(doc) : Qualifies(doc, e)}
      sels == {k \in 1..Len(KNOWN_SELECTORS) :
                 \E e \in qualifying : Matches(doc.els[e], KNOWN_SELECTORS[k])}
      sel == CHOOSE k \in sels : \A h \in sels : k <= h
      hits == {e \in qualifying : Matches(doc.els[e], KNOWN_SELECTORS[sel])}
      el == CHOOSE e \in hits : \A h \in hits : e <= h
  IN (pc = "DONE" /\ qualifying # {}) =>
       result = ElementText(doc.els[el])

C3_LastResortReturnsBodyText ==
  (/\ Terminated
   /\ HitSelectors(doc) = {}
   /\ \A e \in Eligible(doc) : ~Qualifies(doc, e))
  => (/\ pc = "DONE"
      /\ result = Slice(NormalizedBodyText(doc), 8000)
      /\ Length(result) <= 8000
      /\ (Length(NormalizedBodyText(doc)) <= 8000
            => result = NormalizedBodyText(doc)))

(***************************************************************************)
(* C4: the string extract() returns contains no tab, no run of 3 or more   *)
(* newlines and no leading or trailing whitespace, whichever tier produced *)
(* it.                                                                     *)
(***************************************************************************)
C4_ResultNormalized ==
  pc = "DONE" =>
    (/\ ~HasChar(result, TAB)
     /\ ~HasRun(result, LF, 3)
     /\ ~EdgeWhitespace(result))

(***************************************************************************)
(* C5: collapseWhitespace is idempotent: applied to its own output it      *)
(* returns that output.                                                    *)
(***************************************************************************)
C5_Idempotent == npc = "twice" => twice = once

(***************************************************************************)
(* C6: the output of collapseWhitespace contains no tab, no two            *)
(* consecutive spaces and no three consecutive newlines, and neither       *)
(* begins nor ends with whitespace.                                        *)
(***************************************************************************)
C6_OutputShape ==
  npc \in {"once", "twice"} =>
    (/\ IsCanon(once)
     /\ \A k \in 1..Len(once) : once[k].n >= 1
     /\ ~HasChar(once, TAB)
     /\ ~HasRun(once, SP, 2)
     /\ ~HasRun(once, LF, 3)
     /\ ~EdgeWhitespace(once))

\* an input with a tab, a run of spaces, a run of newlines and whitespace at
\* an end has been normalised to a non-empty string
C6_Witness ==
  /\ npc = "once"
  /\ HasChar(str, TAB)
  /\ HasRun(str, SP, 2)
  /\ HasRun(str, LF, 3)
  /\ EdgeWhitespace(str)
  /\ once # EmptyString

(***************************************************************************)
(* C7: the output of collapseWhitespace contains no carriage return (and   *)
(* so no CR LF pair), whatever mix of CR, LF and CR LF the input used.     *)
(***************************************************************************)
C7_NoCarriageReturn ==
  npc \in {"once", "twice"} => (~HasChar(once, CR) /\ ~HasCRLF(once))

(***************************************************************************)
(* C8: extract() never raises: every run ends by returning a string.       *)
(***************************************************************************)
C8_NeverThrows == pc # "THROWN"

(***************************************************************************)
(* C9: the tiers run in the order TRY_SELECTORS, TRY_HEURISTIC,            *)
(* LAST_RESORT: each is entered only from the one before it and only when  *)
(* that one had no result of 200 normalised characters, none is re-entered *)
(* or skipped, and nothing runs after a tier has produced its result.      *)
(***************************************************************************)
C9_TierOrder ==
  [][/\ pc = "TRY_SELECTORS" =>
          pc' \in {"TRY_SELECTORS", "TRY_HEURISTIC", "DONE"}
     /\ pc = "TRY_HEURISTIC" =>
          pc' \in {"TRY_HEURISTIC", "LAST_RESORT", "DONE"}
     /\ pc = "LAST_RESORT" => pc' \in {"LAST_RESORT", "DONE", "THROWN"}
     /\ Terminated => (pc' = pc /\ result' = result /\ returnedBy' = returnedBy)
     /\ (pc = "TRY_SELECTORS" /\ pc' = "TRY_HEURISTIC") =>
          HitSelectors(doc) = {}
     /\ (pc = "TRY_HEURISTIC" /\ pc' = "LAST_RESORT") =>
          \A e \in Eligible(doc) : ~Qualifies(doc, e)
     /\ (pc = "TRY_SELECTORS" /\ pc' = "DONE") =>
          (returnedBy' = "selectors" /\ Length(result') >= MIN_LENGTH)
     /\ (pc = "TRY_HEURISTIC" /\ pc' = "DONE") =>
          (returnedBy' = "heuristic" /\ Length(result') >= MIN_LENGTH)
     /\ (pc = "LAST_RESORT" /\ pc' = "DONE") => returnedBy' = "last_resort"
    ]_vars

\* the heuristic tier has produced the result after the selector tier failed
\* on an element it found
C9_Witness ==
  /\ pc = "DONE"
  /\ returnedBy = "heuristic"
  /\ Targeted(doc) # {}

(***************************************************************************)
(* C10 as claimed: tier 1 returns an element only if its visible text has  *)
(* at least 200 normalised characters.                                     *)
(***************************************************************************)
C10_VisibleTextOnly ==
  (pc = "DONE" /\ returnedBy = "selectors") =>
     Length(collapseWhitespace(VisibleText(doc.els[SelectorElement(doc, i)])))
       >= MIN_LENGTH

(***************************************************************************)
(* C10 amended: tier 1 qualifies an element on its innerText, and on its   *)
(* textContent only when innerText is empty: the element returned has at   *)
(* least 200 normalised characters of innerText, or an empty innerText and *)
(* at least 200 normalised characters of textContent, and that text is the *)
(* result; an element whose innerText is non-empty and normalises to fewer *)
(* than 200 characters is never returned by tier 1.                        *)
(***************************************************************************)
C10_InnerTextFirst ==
  (pc = "DONE" /\ returnedBy = "selectors") =>
     LET el == doc.els[SelectorElement(doc, i)] IN
     IF el.innerText # EmptyString
       THEN /\ Length(collapseWhitespace(el.innerText)) >= MIN_LENGTH
            /\ result = collapseWhitespace(el.innerText)
       ELSE /\ Length(collapseWhitespace(el.textContent)) >= MIN_LENGTH
            /\ result = collapseWhitespace(el.textContent)

\* tier 1 has returned after passing over an element with a short non-empty
\* innerText and a long textContent
C10_Witness ==
  /\ pc = "DONE"
  /\ returnedBy = "selectors"
  /\ \E k \in 1..(i - 1) :
       /\ SelectorElement(doc, k) # NULL
       /\ LET el == doc.els[SelectorElement(doc, k)] IN
          /\ el.innerText # EmptyString
          /\ Length(collapseWhitespace(el.innerText)) < MIN_LENGTH
          /\ Length(collapseWhitespace(el.textContent)) >= MIN_LENGTH

(***************************************************************************)
(* The heuristic scan in detail                                            *)
(***************************************************************************)
\* the normalised text length the scan measures for element e
ScanLength(d, e) == Length(ElementText(d.els[e]))

\* the candidates the loop has already visited
Visited(d, n) == {candidates(d)[m] : m \in 1..(n - 1)}

\* the loop over candidates has run to its end
ScanFinished == pc # "TRY_SELECTORS" /\ j > Len(candidates(doc))

\* the number of direct children of el that are block-level
BlockChildCount(el) ==
  Cardinality({k \in 1..Len(el.children) :
                 el.children[k].tagName \in
                   {"DIV", "SECTION", "ARTICLE", "MAIN", "P", "UL", "OL",
                    "TABLE"}})

\* displayed and visible
Rendered(el) == el.display # "none" /\ el.visibility # "hidden"

(***************************************************************************)
(* C11: among the eligible candidates visited so far that have text, the   *)
(* best element is the first in document order of those with the greatest  *)
(* normalised length, and the best element is replaced only by a candidate *)
(* that is strictly longer than the best length so far.                    *)
(***************************************************************************)
C11_FirstOfTheLongest ==
  /\ [](LET seen == {e \in Visited(doc, j) \cap Eligible(doc) :
                       ScanLength(doc, e) > 0}
        IN IF seen = {}
             THEN bestElement = NULL
             ELSE /\ bestElement \in seen
                  /\ bestLength = ScanLength(doc, bestElement)
                  /\ \A e \in seen :
                       /\ ScanLength(doc, e) <= bestLength
                       /\ ScanLength(doc, e) = bestLength => bestElement <= e)
  /\ [][pc = "TRY_HEURISTIC" /\ bestElement' # bestElement
          => ScanLength(doc, bestElement') > bestLength]_vars

\* two eligible candidates share the greatest length and the earlier one
\* was returned
C11_Witness ==
  /\ pc = "DONE"
  /\ returnedBy = "heuristic"
  /\ \E e \in Eligible(doc) :
       /\ e > bestElement
       /\ ScanLength(doc, e) = bestLength

(***************************************************************************)
(* C12: once the scan has finished, the best element has at most 12        *)
(* block-level direct children, and every rendered candidate with at most  *)
(* 12 block-level direct children has been measured against the best      *)
(* length, whatever its other children and its grandchildren are.          *)
(***************************************************************************)
C12_WrapperFilter ==
  ScanFinished =>
    /\ bestElement # NULL => BlockChildCount(doc.els[bestElement]) <= 12
    /\ \A k \in 1..Len(candidates(doc)) :
         LET el == doc.els[candidates(doc)[k]] IN
         Rendered(el) /\ BlockChildCount(el) <= 12
           => ScanLength(doc, candidates(doc)[k]) <= bestLength

\* a candidate with exactly 12 block children was chosen while a candidate
\* with more of them, at least as long, was passed over
C12_Witness ==
  /\ ScanFinished
  /\ bestElement # NULL
  /\ BlockChildCount(doc.els[bestElement]) = 12
  /\ \E k \in 1..Len(candidates(doc)) :
       LET el == doc.els[candidates(doc)[k]] IN
       /\ Rendered(el)
       /\ BlockChildCount(el) > 12
       /\ ScanLength(doc, candidates(doc)[k]) >= bestLength

(***************************************************************************)
(* C13: the best element of the heuristic scan, and so the element whose   *)
(* text tier 2 returns, is never one whose display is none or whose        *)
(* visibility is hidden.                                                   *)
(***************************************************************************)
C13_InvisibleNeverSelected ==
  bestElement # NULL =>
    /\ doc.els[bestElement].display # "none"
    /\ doc.els[bestElement].visibility # "hidden"

\* tier 2 returned although a candidate that is not rendered is longer
C13_Witness ==
  /\ pc = "DONE"
  /\ returnedBy = "heuristic"
  /\ \E k \in 1..Len(candidates(doc)) :
       /\ ~Rendered(doc.els[candidates(doc)[k]])
       /\ ScanLength(doc, candidates(doc)[k]) > bestLength

(***************************************************************************)
(* C14: no step of the extraction changes the document.                    *)
(***************************************************************************)
C14_DocumentUnchanged == [][doc' = doc]_vars

\* a run that went through all three tiers over a document with candidates
C14_Witness ==
  /\ pc = "DONE"
  /\ returnedBy = "last_resort"
  /\ bestElement # NULL

(***************************************************************************)
(* The handler's responses                                                 *)
(***************************************************************************)
BothDone == \A r \in Runs : hpc[r] = "done"

\* a request field that is missing, not a string, or shorter than 50
\* characters once trimmed
BadField(body, name) ==
  \/ body.isNull
  \/ body[name].type # "string"
  \/ Length(Trim(body[name].text)) < 50

\* every upstream call goes to the Anthropic endpoint, carries the key of
\* its run in x-api-key, and has a body made of the request's fields and of
\* the first reply's text
KeyOnlyInHeader ==
  \A r \in Runs : \A n \in 1..Len(calls[r]) :
    /\ calls[r][n].url = "https://api.anthropic.com/v1/messages"
    /\ calls[r][n].xApiKey = Trim(apiKey[r])
    /\ calls[r][n].body.resume \in {EmptyString, Trim(req.body.resume.text)}
    /\ calls[r][n].body.jobDescription = Trim(req.body.jobDescription.text)
    /\ calls[r][n].body.tailoredResume \in
         {EmptyString, Trim(upstream.tailor.text)}

\* a key that fetch accepts as a header value
UsableKey(key) == key # EmptyString /\ ~HasChar(Trim(key), LF) /\ ~HasChar(Trim(key), CR)

(***************************************************************************)
(* C15 as stated: the key appears only in the x-api-key header of the      *)
(* calls to Anthropic, and two runs on the same request and the same       *)
(* upstream replies that differ only in the value of a non-empty key       *)
(* return the same status and body.                                        *)
(***************************************************************************)
C15_KeyValueIrrelevant ==
  /\ KeyOnlyInHeader
  /\ BothDone /\ apiKey[1] # EmptyString /\ apiKey[2] # EmptyString
       => res[1] = res[2]

(***************************************************************************)
(* C15, amended: the key appears only in the x-api-key header of the calls *)
(* to Anthropic; two runs on the same request and the same upstream        *)
(* replies whose keys are non-empty and acceptable as a header value       *)
(* return the same status and body; a run whose non-empty key is not       *)
(* acceptable as a header value makes no call.                             *)
(***************************************************************************)
C15_UsableKeyValueIrrelevant ==
  /\ KeyOnlyInHeader
  /\ BothDone /\ UsableKey(apiKey[1]) /\ UsableKey(apiKey[2])
       => res[1] = res[2]
  /\ \A r \in Runs : ~UsableKey(apiKey[r]) => calls[r] = <<>>

\* both runs answered 200 under two different usable keys
C15_Witness ==
  /\ BothDone
  /\ UsableKey(apiKey[1])
  /\ UsableKey(apiKey[2])
  /\ apiKey[1] # apiKey[2]
  /\ res[1].status = 200
  /\ Len(calls[1]) = 2
  /\ Len(calls[2]) = 2

(***************************************************************************)
(* C16: a POST whose resume or jobDescription is missing, not a string or  *)
(* shorter than 50 characters after trimming never leads to a call to      *)
(* Anthropic and is answered with status 400.                              *)
(***************************************************************************)
C16_InvalidBodyRejected ==
  \A r \in Runs :
    req.method = "POST"
      /\ (BadField(req.body, "resume") \/ BadField(req.body, "jobDescription"))
    => /\ calls[r] = <<>>
       /\ hpc[r] = "done" => res[r].status = 400

\* a 400 for a jobDescription of 50 or more characters that trims to fewer,
\* with a valid resume and a key in place
C16_Witness ==
  \E r \in Runs :
    /\ hpc[r] = "done"
    /\ req.method = "POST"
    /\ ~BadField(req.body, "resume")
    /\ Length(req.body.jobDescription.text) >= 50
    /\ BadField(req.body, "jobDescription")
    /\ apiKey[r] # EmptyString
    /\ res[r].status = 400

(***************************************************************************)
(* C17: an OPTIONS request is answered 204 with an empty body, a request   *)
(* of any method other than OPTIONS and POST is answered 405, and neither  *)
(* leads to a 400 or to a call to Anthropic.                               *)
(***************************************************************************)
C17_MethodGate ==
  \A r \in Runs :
    /\ req.method = "OPTIONS"
         => /\ calls[r] = <<>>
            /\ hpc[r] = "done"
                 => res[r].status = 204 /\ res[r].kind = "end"
    /\ req.method \notin {"OPTIONS", "POST"}
         => /\ calls[r] = <<>>
            /\ hpc[r] = "done" => res[r].status = 405

\* a GET with a body that would not pass validation was answered 405
C17_Witness ==
  \E r \in Runs :
    /\ hpc[r] = "done"
    /\ req.method = "GET"
    /\ BadField(req.body, "resume")
    /\ res[r].status = 405

(***************************************************************************)
(* The popup's screens and buttons                                         *)
(***************************************************************************)
MainVisible == ~dom.screenMain_hidden

OnboardingVisible == ~dom.screenOnboarding_hidden

\* a resume was in local storage when the popup was opened
ResumeAtOpen == tasks[1].stored.type = "string" /\ tasks[1].stored.text # EmptyString

\* a confirmed reset has been started
ResetStarted == \E t \in 1..Len(tasks) : tasks[t].handler = "reset"

(***************************************************************************)
(* C18: whenever autoScrapeJobDescription has just returned, whatever its  *)
(* outcome, the Generate button is enabled.                                *)
(***************************************************************************)
C18_GenerateEnabledAfterScrape ==
  \A t \in 1..Len(tasks) :
    tasks[t].at = "scraped" => ~dom.btnGenerate_disabled

(***************************************************************************)
(* C19 as stated: when init completes, the main screen is shown if a       *)
(* resume was in storage at open time and the onboarding screen otherwise; *)
(* and once init has switched to a screen exactly one of the two screens   *)
(* is visible.                                                             *)
(***************************************************************************)
C19_ScreenAtInitEnd ==
  /\ "init_done" \in last =>
       /\ MainVisible <=> ResumeAtOpen
       /\ OnboardingVisible <=> ~ResumeAtOpen
  /\ Shown => (MainVisible <=> ~OnboardingVisible)

(***************************************************************************)
(* C19, amended: init switches to the main screen if a resume was in       *)
(* storage at open time and to the onboarding screen otherwise; that       *)
(* screen is still the one shown when init completes unless a reset was    *)
(* confirmed in the meantime; and once init has switched to a screen       *)
(* exactly one of the two screens is visible.                              *)
(***************************************************************************)
C19_ScreenChosenByInit ==
  /\ "init_screen" \in last \/ ("init_done" \in last /\ ~ResetStarted) =>
       /\ MainVisible <=> ResumeAtOpen
       /\ OnboardingVisible <=> ~ResumeAtOpen
  /\ Shown => (MainVisible <=> ~OnboardingVisible)

\* init has just completed on the main screen, after a scrape that
\* captured text
C19_Witness ==
  /\ "init_done" \in last
  /\ ResumeAtOpen
  /\ MainVisible
  /\ scrapedJobText # NullValue

(***************************************************************************)
(* C20: a confirmed Reset removes the stored resume when it is clicked and *)
(* completes with scrapedJobText, lastResult and pickedFileText null, Copy *)
(* and Download disabled and the onboarding screen shown; a cancelled      *)
(* Reset changes neither storage, nor the runtime state, nor the buttons,  *)
(* nor the visible screen, nor any running handler.                        *)
(***************************************************************************)
C20_ResetEffect ==
  /\ []("reset_confirmed" \in last => storage = Undefined)
  /\ []("reset_done" \in last =>
          /\ scrapedJobText = NullValue
          /\ lastResult = NullValue
          /\ pickedFileText = NullValue
          /\ dom.btnCopy_disabled
          /\ dom.btnDownload_disabled
          /\ OnboardingVisible
          /\ ~MainVisible)
  /\ [][clicks' # clicks /\ "reset_cancelled" \in last' =>
          UNCHANGED <<storage, pickedFileText, scrapedJobText, lastResult,
                      dom, tasks>>]_vars

\* a Reset has just completed after a generation that succeeded
C20_Witness ==
  /\ "reset_done" \in last
  /\ dom.errorBanner_hidden
  /\ \E t \in 1..Len(tasks) :
       tasks[t].handler = "generate" /\ tasks[t].at = "done"

(***************************************************************************)
(* C21: the selector loop runs at most once per entry of the selector      *)
(* list, the heuristic loop at most once per candidate, and a run that has *)
(* left the three tiers has returned a result (it is in DONE).             *)
(***************************************************************************)
C21_AlwaysReturns ==
  /\ i <= Len(KNOWN_SELECTORS) + 1
  /\ j <= Len(candidates(doc)) + 1
  /\ pc \notin {"TRY_SELECTORS", "TRY_HEURISTIC", "LAST_RESORT"}
       => pc = "DONE" /\ returnedBy # "none"

(***************************************************************************)
(* The reference transformation of C22, on strings written out character   *)
(* by character                                                            *)
(***************************************************************************)
\* the characters of a run-length encoded string
RECURSIVE Expand(_)
Expand(s) ==
  IF s = <<>> THEN <<>>
  ELSE [k \in 1..Head(s).n |-> Head(s).c] \o Expand(Tail(s))

\* the number of leading characters of cs equal to c
RECURSIVE LeadingCount(_, _)
LeadingCount(cs, c) ==
  IF cs = <<>> \/ Head(cs) # c THEN 0 ELSE 1 + LeadingCount(Tail(cs), c)

\* every maximal run of at least min characters c replaced by to of them
RECURSIVE ReplaceRuns(_, _, _, _)
ReplaceRuns(cs, c, min, to) ==
  IF cs = <<>> THEN <<>>
  ELSE IF Head(cs) # c
    THEN <<Head(cs)>> \o ReplaceRuns(Tail(cs), c, min, to)
    ELSE LET n == LeadingCount(cs, c) IN
         [k \in 1..(IF n >= min THEN to ELSE n) |-> c]
           \o ReplaceRuns(SubSeq(cs, n + 1, Len(cs)), c, min, to)

\* whitespace removed from both ends
RECURSIVE TrimBoth(_)
TrimBoth(cs) ==
  IF cs = <<>> THEN cs
  ELSE IF Head(cs) \in {"sp", "tab", "lf", "cr"} THEN TrimBoth(Tail(cs))
  ELSE IF cs[Len(cs)] \in {"sp", "tab", "lf", "cr"}
    THEN TrimBoth(SubSeq(cs, 1, Len(cs) - 1))
  ELSE cs

Reference(cs) ==
  TrimBoth(ReplaceRuns(ReplaceRuns(cs, "sp", 2, 1), "lf", 3, 2))

NoCRNoTab(s) == \A k \in 1..Len(s) : s[k].c \notin {"cr", "tab"}

(***************************************************************************)
(* C22: on a string with no carriage return and no tab, collapseWhitespace *)
(* yields the reference transformation: runs of two or more spaces become  *)
(* one space, then runs of three or more newlines become two, then both    *)
(* ends are trimmed.                                                       *)
(***************************************************************************)
C22_EqualsReference ==
  npc = "once" /\ NoCRNoTab(str) => Expand(once) = Reference(Expand(str))

\* an input with three spaces and three newlines in a row between letters
C22_Witness ==
  /\ npc = "once"
  /\ NoCRNoTab(str)
  /\ \E k \in 1..Len(str) : str[k].c = "sp" /\ str[k].n >= 3
  /\ \E k \in 1..Len(str) : str[k].c = "lf" /\ str[k].n >= 3
  /\ once # str
  /\ Len(once) >= 3

(***************************************************************************)
(* Text of excluded kinds nested in a candidate                            *)
(***************************************************************************)
ExcludedKinds ==
  {"SCRIPT", "STYLE", "NOSCRIPT", "IFRAME", "HEADER", "FOOTER", "NAV",
   "ASIDE", "FORM"}

\* the excluded kinds whose text the browser renders
RenderedExcludedKinds == {"HEADER", "FOOTER", "NAV", "ASIDE", "FORM"}

\* t occurs in s as a substring (both canonical)
Contains(s, t) ==
  \/ t = <<>>
  \/ \E p \in 1..(Len(s) - Len(t) + 1) :
       \A q \in 1..Len(t) :
         /\ s[p + q - 1].c = t[q].c
         /\ IF q \in {1, Len(t)}
              THEN s[p + q - 1].n >= t[q].n
              ELSE s[p + q - 1].n = t[q].n

\* the children of el whose tag is one of kinds
NestedOf(el, kinds) ==
  {k \in 1..Len(el.children) : el.children[k].tagName \in kinds}

\* the text of every child of el of one of the kinds is part of the text
\* measured for el
NestedTextCounts(el, kinds) ==
  \A k \in NestedOf(el, kinds) :
    Contains(ElementText(el), collapseWhitespace(el.children[k].text))

Finished(r) == hpc[r] = "done"

ResumeError == "Missing or too-short resume field in request body."

JobDescriptionError ==
  "Missing or too-short jobDescription field in request body."

ValidBody ==
  /\ ~BadField(req.body, "resume")
  /\ ~BadField(req.body, "jobDescription")

(***************************************************************************)
(* C24: the checks come in the order method, resume, jobDescription, key.  *)
(* A POST with an invalid body is answered 400 whatever the key; with both *)
(* fields invalid the error is the resume error; 500 is the answer of a    *)
(* POST with a valid body and no key, and of nothing else; and no answer   *)
(* 204, 405, 400 or 500 comes after a call to the Anthropic API.           *)
(***************************************************************************)
C24_CheckOrder ==
  \A r \in Runs :
    Finished(r) =>
      /\ req.method \notin {"OPTIONS", "POST"} => res[r].status = 405
      /\ req.method = "POST" /\ ~ValidBody => res[r].status = 400
      /\ req.method = "POST" /\ BadField(req.body, "resume")
           => res[r].body.error.text = ResumeError
      /\ req.method = "POST" /\ ~BadField(req.body, "resume")
           /\ BadField(req.body, "jobDescription")
           => res[r].body.error.text = JobDescriptionError
      /\ res[r].status = 500
           <=> req.method = "POST" /\ ValidBody /\ apiKey[r] = EmptyString
      /\ res[r].status \in {204, 405, 400, 500} => calls[r] = <<>>

\* a POST with both fields invalid and no key got the resume error
C24_Witness ==
  \E r \in Runs :
    /\ Finished(r)
    /\ req.method = "POST"
    /\ BadField(req.body, "resume")
    /\ BadField(req.body, "jobDescription")
    /\ apiKey[r] = EmptyString
    /\ res[r].status = 400
    /\ res[r].body.error.text = ResumeError
    /\ calls[r] = <<>>

(***************************************************************************)
(* Order of the upstream calls                                             *)
(***************************************************************************)
TailorSucceeded ==
  /\ upstream.tailor.kind = "http"
  /\ upstream.tailor.ok
  /\ upstream.tailor.isJson
  /\ upstream.tailor.textType = "string"
  /\ Trim(upstream.tailor.text) # EmptyString

\* the tailoring call failed in one of the three ways: no reply, a status
\* that is not 2xx, or a 2xx reply without text
TailorFailed ==
  \/ upstream.tailor.kind = "network_error"
  \/ upstream.tailor.kind = "http" /\ ~upstream.tailor.ok
  \/ /\ upstream.tailor.kind = "http"
     /\ upstream.tailor.ok
     /\ upstream.tailor.isJson
     /\ \/ upstream.tailor.textType = "undefined"
        \/ upstream.tailor.textType = "string"
             /\ Trim(upstream.tailor.text) = EmptyString

(***************************************************************************)
(* C25: a run makes at most two upstream calls, the first for tailoring    *)
(* and the second for scoring; the scoring call exists only when the       *)
(* tailoring call returned 2xx with non-empty text; and a tailoring call   *)
(* that failed, returned non-2xx or returned empty content is answered 502 *)
(* with that one call made.                                                *)
(***************************************************************************)
C25_UpstreamOrder ==
  \A r \in Runs :
    /\ Len(calls[r]) <= 2
    /\ \A k \in 1..Len(calls[r]) :
         calls[r][k].purpose = (IF k = 1 THEN "tailor" ELSE "ats")
    /\ Len(calls[r]) = 2 => TailorSucceeded
    /\ Len(calls[r]) = 2 => calls[r][2].body.tailoredResume = tailoredText[r]
    /\ hpc[r] \notin {"start", "await_tailor"} /\ Len(calls[r]) >= 1
           /\ TailorFailed
         => Finished(r) /\ res[r].status = 502 /\ Len(calls[r]) = 1
    /\ hpc[r] = "await_ats" => Len(calls[r]) = 2
    /\ hpc[r] = "await_tailor" => Len(calls[r]) = 1

\* a 2xx tailoring reply of blanks only was answered 502 after one call
C25_Witness ==
  \E r \in Runs :
    /\ Finished(r)
    /\ upstream.tailor.kind = "http"
    /\ upstream.tailor.ok
    /\ upstream.tailor.text # EmptyString
    /\ ~TailorSucceeded
    /\ res[r].status = 502
    /\ Len(calls[r]) = 1

(***************************************************************************)
(* The 200 response                                                        *)
(***************************************************************************)
\* the run has ended, with a response or with an exception
Settled(r) == hpc[r] \in {"done", "thrown"}

AtsCallSucceeded == upstream.ats.kind = "http" /\ upstream.ats.ok

\* the text of the ATS reply gives an object, as a whole or in its braces
AtsTextHasObject ==
  /\ upstream.ats.textType = "string"
  /\ \/ upstream.ats.json.whole = "object"
     \/ upstream.ats.json.whole = "invalid"
          /\ upstream.ats.json.braces = "object"

\* the body of the ATS reply or the text in it cannot be parsed
AtsParsingFailed ==
  /\ AtsCallSucceeded
  /\ \/ ~upstream.ats.isJson
     \/ upstream.ats.textType # "string"
     \/ upstream.ats.json.whole = "invalid"
          /\ upstream.ats.json.braces # "object"

TrimmedNonEmpty(s) == s # EmptyString /\ Trim(s) = s

(***************************************************************************)
(* C26 as stated: a 200 response comes only after two upstream calls that  *)
(* both returned 2xx; its body has exactly the fields tailoredResume, a    *)
(* non-empty trimmed string, and atsScore, with exactly the fields score,  *)
(* matchedKeywords, missingKeywords (non-empty trimmed strings) and        *)
(* advice; and a run whose ATS call failed or whose ATS reply could not be *)
(* parsed ends with a 502 response that has no tailoredResume.             *)
(***************************************************************************)
C26_AllOrNothing ==
  \A r \in Runs :
    /\ res[r].status = 200 =>
         /\ Len(calls[r]) = 2
         /\ TailorSucceeded
         /\ AtsCallSucceeded
         /\ DOMAIN res[r].body = {"tailoredResume", "atsScore"}
         /\ TrimmedNonEmpty(res[r].body.tailoredResume)
         /\ DOMAIN res[r].body.atsScore =
              {"score", "matchedKeywords", "missingKeywords", "advice"}
         /\ \A n \in 1..Len(res[r].body.atsScore.matchedKeywords) :
              TrimmedNonEmpty(res[r].body.atsScore.matchedKeywords[n])
         /\ \A n \in 1..Len(res[r].body.atsScore.missingKeywords) :
              TrimmedNonEmpty(res[r].body.atsScore.missingKeywords[n])
         /\ Trim(res[r].body.atsScore.advice) = res[r].body.atsScore.advice
    /\ Settled(r) /\ Len(calls[r]) = 2
         /\ (~AtsCallSucceeded \/ AtsParsingFailed)
         => /\ res[r].status = 502
            /\ "tailoredResume" \notin DOMAIN res[r].body

(***************************************************************************)
(* C27 as stated: a 200 response is given only when the text of the ATS    *)
(* reply is a string that gives a JSON object, as a whole or in the span   *)
(* from its first to its last brace; a reply whose text is not a string,   *)
(* or parses to an array, a number, a string, a boolean or null, or has no *)
(* object that parses, is answered 502.                                    *)
(***************************************************************************)
C27_OnlyObjectsAccepted ==
  \A r \in Runs :
    /\ res[r].status = 200 => AtsTextHasObject
    /\ Settled(r) /\ Len(calls[r]) = 2 /\ AtsCallSucceeded
         /\ upstream.ats.isJson /\ ~AtsTextHasObject
         => res[r].status = 502

(***************************************************************************)
(* C28: in a 200 response atsScore.score is an integer from 0 to 100: 0    *)
(* when the score of the reply is not a number or is negative, 100 when it *)
(* is above 100, and otherwise the nearest integer, a half going up.       *)
(***************************************************************************)
C28_ScoreInRange ==
  \A r \in Runs :
    res[r].status = 200 =>
      LET given == extractJsonObject(upstream.ats.textType,
                                     upstream.ats.json).props.score
          score == res[r].body.atsScore.score
      IN /\ score \in 0..100
         /\ given.type # "number" => score = 0
         /\ given.type = "number" /\ given.tenths < 0 => score = 0
         /\ given.type = "number" /\ given.tenths > 1000 => score = 100
         /\ given.type = "number" /\ given.tenths \in 0..1000
              => 10 * score - given.tenths \in (0 - 4)..5

\* a score of 87.5 was returned as 88
C28_Witness ==
  \E r \in Runs :
    /\ res[r].status = 200
    /\ upstream.ats.json.props.score = Score(875)
    /\ res[r].body.atsScore.score = 88

(***************************************************************************)
(* Requests of the popup to the backend                                    *)
(***************************************************************************)
\* the job text held by the popup has 150 characters or more once trimmed
JobTextUsable ==
  /\ scrapedJobText.type = "string"
  /\ Length(Trim(scrapedJobText.text)) >= 150

GenerateTasks == {t \in 1..Len(tasks) : tasks[t].handler = "generate"}

\* the requests sent by the handler of task t
SentBy(t) == {n \in 1..Len(sent) : sent[n].task = t}

\* the handler of task t is between setGenerating(true) and
\* setGenerating(false)
Generating(t) == t \in GenerateTasks /\ tasks[t].at # "done"

\* the handler of task t takes its decision to send or to fail in this step
Decides(t) ==
  /\ t \in GenerateTasks
  /\ tasks[t].at \in {"get", "scraped"}
  /\ tasks'[t].at \in {"fetch", "done"}

(***************************************************************************)
(* C29: every request of the popup is a POST whose body has exactly the    *)
(* fields resume and jobDescription, the resume being the trimmed          *)
(* non-empty value its handler read from storage and the job description   *)
(* the trimmed job text, of 150 characters or more; a handler sends at     *)
(* most one request; and a handler that finds no resume, or no such job    *)
(* text after the scrape, sends nothing and shows the error banner.        *)
(***************************************************************************)
C29_RequestGuard ==
  /\ [](\A n \in 1..Len(sent) :
          /\ sent[n].method = "POST"
          /\ DOMAIN sent[n].body = {"resume", "jobDescription"}
          /\ sent[n].task \in GenerateTasks
          /\ ~Falsy(tasks[sent[n].task].stored)
          /\ sent[n].body.resume = Trim(tasks[sent[n].task].stored.text)
          /\ Length(sent[n].body.jobDescription) >= 150
          /\ Trim(sent[n].body.jobDescription) = sent[n].body.jobDescription)
  /\ [](\A t \in GenerateTasks :
          /\ Cardinality(SentBy(t)) <= 1
          /\ tasks[t].at = "fetch" => Cardinality(SentBy(t)) = 1
          /\ tasks[t].at \in {"get", "query", "inject", "scraped"}
               => SentBy(t) = {})
  /\ [][\A t \in TaskIds :
          Decides(t) =>
            IF ~Falsy(tasks[t].stored) /\ JobTextUsable
              THEN /\ tasks'[t].at = "fetch"
                   /\ sent' = Append(sent,
                        BackendRequest(t, Trim(tasks[t].stored.text),
                                       Trim(scrapedJobText.text)))
              ELSE /\ tasks'[t].at = "done"
                   /\ sent' = sent
                   /\ ~dom'.errorBanner_hidden]_vars

\* a request went out with a job text that the re-scrape on click supplied
\* and that trim() shortened, and a handler without job text showed the error
C29_Witness ==
  /\ \E n \in 1..Len(sent) :
       /\ scrapedJobText.type = "string"
       /\ sent[n].body.jobDescription # scrapedJobText.text
       /\ sent[n].body.jobDescription = Trim(scrapedJobText.text)
  /\ \E t \in GenerateTasks : tasks[t].at = "done" /\ SentBy(t) = {}
  /\ ~dom.errorBanner_hidden

(***************************************************************************)
(* C30 as stated: while a handler of the Generate button is between        *)
(* setGenerating(true) and setGenerating(false) the button is disabled,    *)
(* and at most one request to the backend is in flight.                    *)
(***************************************************************************)
C30_OneGenerationAtATime ==
  /\ (\E t \in TaskIds : Generating(t)) => dom.btnGenerate_disabled
  /\ Cardinality({t \in GenerateTasks : tasks[t].at = "fetch"}) <= 1

(***************************************************************************)
(* A generation that outlives a reset                                      *)
(***************************************************************************)
\* a confirmed Reset has run to its end
ResetCompleted ==
  \E t \in 1..Len(tasks) : tasks[t].handler = "reset" /\ tasks[t].at = "done"

\* what the Reset handler leaves behind
ResultCleared ==
  /\ lastResult = NullValue
  /\ dom.btnCopy_disabled
  /\ dom.btnDownload_disabled

(***************************************************************************)
(* C31 as stated: once a confirmed Reset has completed, and for as long as *)
(* the onboarding screen is shown, lastResult is null and the Copy and     *)
(* Download buttons are disabled, whatever handlers were running when the  *)
(* reset was confirmed.                                                    *)
(***************************************************************************)
C31_ResetStaysInEffect ==
  ResetCompleted /\ OnboardingVisible => ResultCleared

(***************************************************************************)
(* Nested candidates                                                       *)
(***************************************************************************)
\* the elements of d that contain the k-th one
RECURSIVE Ancestors(_, _)
Ancestors(d, k) ==
  IF d.parent[k] = NULL THEN {}
  ELSE {d.parent[k]} \cup Ancestors(d, d.parent[k])

\* a candidate that passes the visibility, kind and wrapper filters
PassesFilters(el) ==
  /\ el.tagName \in {"DIV", "SECTION", "ARTICLE", "MAIN"}
  /\ Rendered(el)
  /\ el.tagName \notin ExcludedKinds
  /\ BlockChildCount(el) <= 12

EligibleAncestors(d, k) == {a \in Ancestors(d, k) : PassesFilters(d.els[a])}

(***************************************************************************)
(* C32 as stated: the element selected by the heuristic scan has no        *)
(* ancestor that is an eligible candidate, since every eligible ancestor   *)
(* of a candidate comes before it in the scan and has a normalised text at *)
(* least as long.                                                          *)
(***************************************************************************)
C32_OutermostWins ==
  /\ bestElement # NULL => EligibleAncestors(doc, bestElement) = {}
  /\ \A k \in 1..Len(doc.els) :
       PassesFilters(doc.els[k]) =>
         \A a \in EligibleAncestors(doc, k) :
           a < k /\ ScanLength(doc, a) >= ScanLength(doc, k)

(***************************************************************************)
(* C33: a result of tier 1 or tier 2 is the whole normalised text of the   *)
(* element it comes from, with no cap applied, and has at least 200        *)
(* characters; a result of fewer than 200 characters is a result of the    *)
(* last resort.                                                            *)
(***************************************************************************)
C33_TierResultsLongAndWhole ==
  /\ pc = "DONE" /\ returnedBy = "selectors" =>
       /\ Length(result) >= 200
       /\ result = ElementText(doc.els[SelectorElement(doc, i)])
  /\ pc = "DONE" /\ returnedBy = "heuristic" =>
       /\ Length(result) >= 200
       /\ result = ElementText(doc.els[bestElement])
  /\ pc = "DONE" /\ Length(result) < 200 => returnedBy = "last_resort"

\* tier 2 has returned a text of more than 8000 characters
C33_Witness ==
  /\ pc = "DONE"
  /\ returnedBy = "heuristic"
  /\ Length(result) > 8000

====
